---- MODULE Spec2Model ----
(***************************************************************************)
(* Model of the query orchestration core of the researcher search service: *)
(* the /api/query handler of src/main.py and the pipeline answer_question  *)
(* of src/backend.py with the functions it calls.                          *)
(*                                                                         *)
(* Python values are modelled as tagged records: None, a string (a         *)
(* sequence of one-character strings, or of opaque tokens for texts whose  *)
(* characters are never inspected) or a list.                              *)
(***************************************************************************)
EXTENDS Integers, Sequences, FiniteSets, TLC

(***************************************************************************)
(* Python values                                                           *)
(***************************************************************************)
NoneV == [t |-> "none"]
Str(s) == [t |-> "str", v |-> s]
List(l) == [t |-> "list", v |-> l]

\* Python truthiness of None, a string or a list
Truthy(x) == x.t # "none" /\ Len(x.v) > 0

Whitespace == {" "}

Upper == <<"A","B","C","D","E","F","G","H","I","J","K","L","M",
           "N","O","P","Q","R","S","T","U","V","W","X","Y","Z">>
LowerCase == <<"a","b","c","d","e","f","g","h","i","j","k","l","m",
           "n","o","p","q","r","s","t","u","v","w","x","y","z">>

\* str.lower() / toLower() on one character
LowerChar(c) ==
    IF \E i \in 1..Len(Upper) : Upper[i] = c
    THEN LowerCase[CHOOSE i \in 1..Len(Upper) : Upper[i] = c]
    ELSE c

\* str.lower() / toLower() on a string
Lower(s) == [i \in 1..Len(s) |-> LowerChar(s[i])]

RECURSIVE LStrip(_)
LStrip(s) ==
    IF s = <<>> THEN s
    ELSE IF Head(s) \in Whitespace THEN LStrip(Tail(s)) ELSE s

RECURSIVE RStrip(_)
RStrip(s) ==
    IF s = <<>> THEN s
    ELSE IF s[Len(s)] \in Whitespace THEN RStrip(SubSeq(s, 1, Len(s) - 1)) ELSE s

\* str.strip()
Strip(s) == RStrip(LStrip(s))

\* str.split(): the maximal runs of non-whitespace characters
RECURSIVE SplitFrom(_, _)
SplitFrom(s, cur) ==
    IF s = <<>> THEN (IF cur = <<>> THEN <<>> ELSE <<cur>>)
    ELSE IF Head(s) \in Whitespace
         THEN (IF cur = <<>> THEN <<>> ELSE <<cur>>) \o SplitFrom(Tail(s), <<>>)
         ELSE SplitFrom(Tail(s), Append(cur, Head(s)))

Split(s) == SplitFrom(s, <<>>)

\* " ".join(parts)
RECURSIVE Join(_)
Join(parts) ==
    IF parts = <<>> THEN <<>>
    ELSE IF Len(parts) = 1 THEN parts[1]
    ELSE parts[1] \o <<" ">> \o Join(Tail(parts))

\* the last n items of a list: list[-n:]
LastN(s, n) == IF Len(s) <= n THEN s ELSE SubSeq(s, Len(s) - n + 1, Len(s))

\* the first n items of a list: list[:n]
FirstN(s, n) == IF Len(s) <= n THEN s ELSE SubSeq(s, 1, n)

Range(s) == {s[i] : i \in 1..Len(s)}

(***************************************************************************)
(* Department normalization (backend.py 93-150)                            *)
(***************************************************************************)
ENGINEERING_ALIASES == {
    <<"e","n","g","i","n","e","e","r","i","n","g">>,
    <<"u","o","f","a"," ","e","n","g","i","n","e","e","r","i","n","g">>,
    <<"u","a","l","b","e","r","t","a"," ","e","n","g","i","n","e","e","r","i","n","g">>,
    <<"f","a","c","u","l","t","y"," ","o","f"," ","e","n","g","i","n","e","e","r","i","n","g">>,
    <<"f","a","c","u","l","t","y"," ","e","n","g","i","n","e","e","r","i","n","g">>,
    <<"e","n","g","g">> }

ENGINEERING_DEPARTMENTS == <<
    "Electrical and Computer Engineering",
    "Mechanical Engineering",
    "Civil and Environmental Engineering",
    "Chemical and Materials Engineering",
    "Biomedical Engineering" >>

\* a normalization that first rewrites the short aliases to "engineering"
_normalize_department_value_stepwise(dept) ==
    IF dept.t # "str" THEN dept
    ELSE IF Lower(Strip(dept.v)) = <<"e","n","g","i","n","e","e","r","i","n","g">>
         THEN List(ENGINEERING_DEPARTMENTS)
    ELSE IF Lower(Strip(dept.v)) \in ENGINEERING_ALIASES
         THEN Str(<<"e","n","g","i","n","e","e","r","i","n","g">>)
         ELSE dept

\* the comparison without strip()
_normalize_department_value_unstripped(dept) ==
    IF dept.t # "str" THEN dept
    ELSE IF Lower(dept.v) \in ENGINEERING_ALIASES
         THEN List(ENGINEERING_DEPARTMENTS)
         ELSE dept

_normalize_department_value(dept) ==
    IF dept.t = "none" THEN NoneV
    ELSE IF dept.t = "list" THEN dept
    ELSE IF dept.t # "str" THEN dept
    ELSE IF Lower(Strip(dept.v)) \in ENGINEERING_ALIASES
         THEN List(ENGINEERING_DEPARTMENTS)
         ELSE dept

normalize_intent(intent_obj) ==
    [intent_obj EXCEPT !.department = _normalize_department_value(intent_obj.department)]

(***************************************************************************)
(* Intent catalog and routing predicates (backend.py 543-590)              *)
(***************************************************************************)
TOPIC_INTENTS == {
    "AUTHOR_TOPIC_PUBLICATION_COUNT",
    "AUTHOR_TOPIC_EXTENT",
    "AUTHOR_TOPIC_SYNERGY",
    "AUTHOR_TOPIC_PEERS_AT_UOFA",
    "DEPARTMENT_TOPIC_TRENDS" }

TEMPLATE_INTENTS == {
    "AUTHOR_PUBLICATIONS_RANGE",
    "AUTHOR_LATEST_PUBLICATION",
    "AUTHOR_TOP_VENUE",
    "AUTHOR_PAIR_SHARED_PUBLICATIONS",
    "AUTHOR_TOP_COAUTHORS",
    "AUTHOR_TOPIC_PUBLICATION_COUNT",
    "AUTHOR_TOPIC_EXTENT",
    "AUTHOR_MAIN_RESEARCH_AREAS",
    "AUTHOR_TOPIC_SYNERGY",
    "AUTHOR_INSTITUTION_COLLAB_FREQUENCY",
    "AUTHOR_TOPIC_PEERS_AT_UOFA",
    "DEPARTMENT_TOPIC_TRENDS" }

AUTHOR_INTENTS_REQUIRING_AUTHOR == TEMPLATE_INTENTS \ {"DEPARTMENT_TOPIC_TRENDS"}

is_template_intent(intent_obj) == intent_obj.intent \in TEMPLATE_INTENTS

\* a slot check that lets every intent through
has_required_slots_always(intent_obj) == TRUE

\* the slot check with "is not None" in place of the truth tests
has_required_slots_nonnull(intent_obj) ==
    LET intent == intent_obj.intent IN
    IF intent \in AUTHOR_INTENTS_REQUIRING_AUTHOR /\ intent_obj.authorUserId = NoneV
    THEN FALSE
    ELSE IF intent = "AUTHOR_PAIR_SHARED_PUBLICATIONS"
            /\ ~(intent_obj.authorUserId # NoneV /\ intent_obj.second_author # NoneV)
    THEN FALSE
    ELSE IF intent = "DEPARTMENT_TOPIC_TRENDS" /\ intent_obj.department = NoneV
    THEN FALSE
    ELSE TRUE

has_required_slots(intent_obj) ==
    LET intent == intent_obj.intent IN
    IF intent \in AUTHOR_INTENTS_REQUIRING_AUTHOR /\ ~Truthy(intent_obj.authorUserId)
    THEN FALSE
    ELSE IF intent = "AUTHOR_PAIR_SHARED_PUBLICATIONS"
            /\ ~(Truthy(intent_obj.authorUserId) /\ Truthy(intent_obj.second_author))
    THEN FALSE
    ELSE IF intent = "DEPARTMENT_TOPIC_TRENDS" /\ ~Truthy(intent_obj.department)
    THEN FALSE
    ELSE TRUE

(***************************************************************************)
(* The graph: Researcher nodes (backend.py 295-347).  A graph content is   *)
(* any subset of ResearcherUniverse; every query sees the content the      *)
(* database holds when it runs.                                            *)
(***************************************************************************)
Researcher(name, norm, uid, ccid) ==
    [name |-> name, normalized_name |-> norm, userId |-> uid, ccid |-> ccid]

ResearcherUniverse == {
    Researcher(Str(<<"A","l">>), Str(<<"a","l">>), Str(<<"u1">>), Str(<<"c1">>)),
    Researcher(NoneV,            Str(<<"a","l">>), Str(<<"u2">>), NoneV),
    Researcher(Str(<<"A","l">>), Str(<<"a","l">>), NoneV,         Str(<<"c3">>)),
    Researcher(Str(<<"A","l">>), Str(<<"a","l">>), NoneV,         NoneV) }

Graphs == SUBSET ResearcherUniverse

\* WHERE (r.userId IS NOT NULL OR r.ccid IS NOT NULL)
\* the queries without that filter
InHouse_unfiltered(r) == TRUE

InHouse(r) == r.userId.t # "none" \/ r.ccid.t # "none"

\* coalesce(a, b)
Coalesce(a, b) == IF a.t # "none" THEN a ELSE b

\* toLower(x) = toLower($name); a null operand never compares equal
EqualsIgnoreCase(x, name) == x.t = "str" /\ Lower(x.v) = Lower(name)

\* code point order of the characters used
CodeOrder == <<" ">> \o Upper \o LowerCase \o <<"~">>
Code(c) == CHOOSE i \in 1..Len(CodeOrder) : CodeOrder[i] = c

RECURSIVE StrLess(_, _)
StrLess(a, b) ==
    IF b = <<>> THEN FALSE
    ELSE IF a = <<>> THEN TRUE
    ELSE IF Head(a) = Head(b) THEN StrLess(Tail(a), Tail(b))
    ELSE Code(Head(a)) < Code(Head(b))

\* Cypher ordering of r.name: null is larger than every string
NameLess(x, y) ==
    IF x.t = "none" THEN FALSE
    ELSE IF y.t = "none" THEN TRUE
    ELSE StrLess(x.v, y.v)

\* toLower(r.name) = toLower($name) OR toLower(r.normalized_name) = toLower($name)
NameMatches(g, name) ==
    {r \in g : EqualsIgnoreCase(r.name, name) \/ EqualsIgnoreCase(r.normalized_name, name)}

\* MATCH (r:Researcher) WHERE ... of exact_cypher
ExactMatches(g, name) == {r \in NameMatches(g, name) : InHouse(r)}

\* ORDER BY r.name DESC LIMIT 1: the nodes the single row can come from
ExactFirst(g, name) ==
    {r \in ExactMatches(g, name) :
        \A o \in ExactMatches(g, name) : ~NameLess(r.name, o.name)}

\* RETURN r.userId AS userId, coalesce(r.name, r.normalized_name) AS name, ...
ExactRow(r) ==
    [userId |-> r.userId,
     name |-> Coalesce(r.name, r.normalized_name),
     normalized_name |-> r.normalized_name]

\* fuzzy_name_query (backend.py 317-320)
FuzzyNameQuery(author_name) ==
    IF " " \in Range(author_name)
    THEN Join([i \in 1..Len(Split(author_name)) |-> Append(Split(author_name)[i], "~")])
    ELSE Append(author_name, "~")

\* The fulltext index researcher_name_index over name and normalized_name:
\* a term t~ matches an indexed token within one edit of t.
DropOne(s, i) == SubSeq(s, 1, i - 1) \o SubSeq(s, i + 1, Len(s))

Near(a, b) ==
    \/ a = b
    \/ Len(a) = Len(b) /\ Cardinality({i \in 1..Len(a) : a[i] # b[i]}) = 1
    \/ Len(a) = Len(b) + 1 /\ \E i \in 1..Len(a) : DropOne(a, i) = b
    \/ Len(b) = Len(a) + 1 /\ \E i \in 1..Len(b) : DropOne(b, i) = a

IndexedTokens(r) ==
    (IF r.name.t = "str" THEN Range(Split(Lower(r.name.v))) ELSE {})
    \cup (IF r.normalized_name.t = "str" THEN Range(Split(Lower(r.normalized_name.v))) ELSE {})

TermMatches(term, r) ==
    /\ Len(term) > 1
    /\ term[Len(term)] = "~"
    /\ \E tok \in IndexedTokens(r) : Near(Lower(SubSeq(term, 1, Len(term) - 1)), tok)

\* CALL db.index.fulltext.queryNodes("researcher_name_index", $name_query)
IndexMatches(g, query) ==
    {r \in g : \E i \in 1..Len(Split(query)) : TermMatches(Split(query)[i], r)}

\* ... YIELD node, score WHERE (node.userId IS NOT NULL OR node.ccid IS NOT NULL)
FuzzyMatches(g, query) == {r \in IndexMatches(g, query) : InHouse(r)}

\* the nodes of a match that carry neither identifier
WithoutIds(nodes) == {r \in nodes : r.userId = NoneV /\ r.ccid = NoneV}

ScoreValues == {1, 2}
FUZZY_LIMIT == 5

\* RETURN node.userId AS userId, coalesce(node.name, ...) AS name, ..., score
\* The rows are grouped by these columns (collect(DISTINCT d.department) is
\* an aggregate); no two identified nodes of ResearcherUniverse agree on
\* them, so there is one row per node.  Departments are not modelled.
FuzzyRow(r, score) ==
    [userId |-> r.userId,
     name |-> Coalesce(r.name, r.normalized_name),
     normalized_name |-> r.normalized_name,
     score |-> score]

\* ORDER BY score DESC LIMIT 5: the node orders the index can answer with
FuzzyOrders(nodes, score) ==
    {s \in [1..Cardinality(nodes) -> nodes] :
        /\ \A i, j \in 1..Cardinality(nodes) : i # j => s[i] # s[j]
        /\ \A i, j \in 1..Cardinality(nodes) : i < j => score[s[i]] >= score[s[j]]}

(***************************************************************************)
(* Intents, responses, turns                                               *)
(***************************************************************************)
Intent(kind, author, second, topic, dept, uid) ==
    [intent |-> kind, author |-> author, second_author |-> second, topic |-> topic,
     department |-> dept, start_year |-> NoneV, end_year |-> NoneV, scope |-> NoneV,
     authorUserId |-> uid]

\* the empty dict {} a response starts with
EmptyIntent == Intent("", NoneV, NoneV, NoneV, NoneV, NoneV)

\* the fallback of classify_intent (backend.py 204-213)
FallbackIntent == Intent("OPEN_QUESTION", NoneV, NoneV, NoneV, NoneV, NoneV)

INTERNAL_ERROR_ANSWER == <<"An internal error occurred while processing your request.">>

CandidatesAnswer(name) ==
    <<"I couldn't find exact matches for '">> \o name
        \o <<"', but I found similar researchers. Please select one:">>

GUIDANCE_ANSWER == <<"I could not find any relevant UAlberta publications or researchers matching your question with high confidence. ...">>

NoResolution == [resolution_path |-> "", fuzzy_scores |-> <<>>]

\* result as answer_question creates it (backend.py 596-606)
InitialResult ==
    [answer |-> INTERNAL_ERROR_ANSWER, intent |-> EmptyIntent, cypher |-> <<>>,
     dbRows |-> <<>>, semanticHits |-> <<>>, candidates |-> NoneV, error |-> NoneV,
     timings |-> {}, resolution |-> NoResolution]

Turn(role, content) == [role |-> role, content |-> content]

HISTORY_WINDOW == 10

\* conversation_history.append(user); .append(assistant)  (main.py 75-76)
\* the two appends in the other order
AppendTurns_assistant_first(history, q, answer) ==
    history \o <<Turn("assistant", answer), Turn("user", q)>>

AppendTurns(history, q, answer) ==
    history \o <<Turn("user", q), Turn("assistant", answer)>>

\* conversation_history[-10:]  (main.py 79)
\* a slice that keeps the oldest turns: conversation_history[:10]
TrimHistory_first(history) == FirstN(history, HISTORY_WINDOW)

TrimHistory(history) == LastN(history, HISTORY_WINDOW)

(***************************************************************************)
(* What the environment can supply: requests, LLM output, search results   *)
(***************************************************************************)
\* request bodies: blank questions and questions to answer
Questions == {<<>>, <<" ", " ">>, <<" ", "q", "?", " ">>}

SelectedIds == {NoneV, Str(<<>>), Str(<<"u1">>)}

Kinds == TEMPLATE_INTENTS \cup {"OPEN_QUESTION"}

AuthorValues == {NoneV, Str(<<" ">>), Str(<<"a","L"," ">>), Str(<<"A","x">>)}

\* the remaining slots of a classified intent
SlotProfiles == {
    [second_author |-> NoneV, topic |-> NoneV, department |-> NoneV, authorUserId |-> NoneV],
    [second_author |-> Str(<<"B","o">>), topic |-> Str(<<"t">>),
     department |-> Str(<<" ","E","n","g","g">>), authorUserId |-> NoneV],
    [second_author |-> NoneV, topic |-> Str(<<"t">>),
     department |-> Str(<<"E","C","E">>), authorUserId |-> Str(<<"u9">>)] }

ClassifiedIntents ==
    {Intent(k, a, p.second_author, p.topic, p.department, p.authorUserId) :
        k \in Kinds, a \in AuthorValues, p \in SlotProfiles}

\* markdown code fences an LLM may wrap a query in
FENCE_CYPHER == "[fence]cypher"
FENCE == "[fence]"

\* message.content of a chat completion
AnswerContents == {<<>>, <<" ", "first answer", " ">>}
ReaskContents == {<<>>, <<"second answer">>}
CypherContents == {
    <<>>,
    <<"MATCH (r:Researcher) RETURN r">>,
    <<"MATCH (d:Department)", "WHERE toLower(d.department) = toLower(deptName)", "RETURN d">> }
AuthorCypherContents == {<<>>, <<FENCE_CYPHER, "MATCH (p:Publication) WHERE p.title IN titles RETURN p", FENCE>>}

MIN_RELEVANCE_SCORE == 70

Hit(title, score) == [title |-> title, score |-> score]

HitLists == {
    <<>>,
    <<Hit(Str(<<"T1">>), 80)>>,
    <<Hit(Str(<<"T1">>), 80), Hit(NoneV, 60)>>,
    <<Hit(NoneV, 60)>> }

RowLists == {<<>>, <<"row">>}

Embedding == List(<<"e1">>)

\* a stored history a session cookie can hold when a request arrives
PriorExchange == <<Turn("user", <<"q">>), Turn("assistant", <<"first answer">>)>>

InitHistories == {
    <<>>,
    PriorExchange \o PriorExchange \o PriorExchange \o PriorExchange \o PriorExchange }

(***************************************************************************)
(* LLM helper and intent classification (backend.py 163-221)               *)
(***************************************************************************)
Ok(v) == [ok |-> TRUE, v |-> v]
Raised(e) == [ok |-> FALSE, e |-> e]

\* what the chat completion endpoint answers
LLMFailure == [kind |-> "failure"]
LLMText(c) == [kind |-> "text", content |-> c]
\* a text that json.loads accepts: a record, or data that is not a record
LLMJsonRecord(obj) == [kind |-> "json_record", obj |-> obj]
LLMJsonOther == [kind |-> "json_other"]

\* call_llm: the stripped content, or an exception when the provider fails
\* or returns no content
call_llm(reply) ==
    IF reply.kind = "failure" THEN Raised(<<"provider error">>)
    ELSE IF reply.kind = "text" /\ reply.content = <<>>
    THEN Raised(<<"LLM response had no message text output">>)
    ELSE IF reply.kind = "text" THEN Ok(Strip(reply.content))
    ELSE Ok(reply)

IntentKeys == {"intent", "author", "second_author", "topic", "department",
               "start_year", "end_year", "scope"}

KindNone == "None"

\* obj.setdefault(key, None) for the eight slots; authorUserId stays as given
SetDefaults(obj) ==
    [k \in IntentKeys \cup {"authorUserId"} |->
        IF k \in DOMAIN obj THEN obj[k]
        ELSE IF k = "intent" THEN KindNone ELSE NoneV]

classify_intent(reply) ==
    LET raw == call_llm(reply) IN
    IF ~raw.ok THEN raw
    ELSE IF reply.kind = "text" THEN Ok(SetDefaults(FallbackIntent))
    ELSE IF reply.kind = "json_other"
    THEN Raised(<<"object has no attribute 'setdefault'">>)
    ELSE Ok(SetDefaults(reply.obj))

\* a JSON record that lacks slots
PartialObject == [author |-> Str(<<"A","x">>)]

ClassifierReplies ==
    {LLMFailure, LLMText(<<>>), LLMText(<<"not json">>), LLMJsonOther,
     LLMJsonRecord(PartialObject)}
    \cup {LLMJsonRecord(i) : i \in ClassifiedIntents}

\* get_embedding (backend.py 355-365)
EmbeddingReplies == {Ok(Embedding), Raised(<<"embedding error">>)}

get_embedding(text, reply) ==
    IF text = <<>> THEN Ok(List(<<>>)) ELSE reply

(***************************************************************************)
(* State                                                                   *)
(***************************************************************************)
VARIABLES
    arg,                   \* the argument of a function called on its own
    ret,                   \* the values it returned, in order
    inflight,              \* the requests of one session served at once
    session_history,       \* request.session["conversation_history"]
    status,                \* HTTP status of the response, 0 while none
    pc,                    \* where the request is
    body_question,         \* the question of the request body
    question,              \* the stripped question
    turn_log,              \* every turn appended to the session so far
    served,                \* the requests answered so far
    selected_user_id,
    conversation_history,  \* the list api_query passes to answer_question
    intent_task,           \* "none", "created", "running", "done", "failed"
    embedding_task,
    intent_raw,            \* what classify_intent returned
    question_embedding,
    intent_obj,
    result,                \* the response object of answer_question
    author_to_check,
    updated_intent,        \* the intent resolve_author returned
    res_nodes,             \* the graph nodes behind the resolver's rows
    outsiders,             \* the nodes its query matched by name only
    exact_count,           \* the researchers the exact query matched before LIMIT 1
    branch,                \* the branch step 4 took: "template", "semantic"
    cypher_task,
    semantic_task,         \* also "embedding", "searching" while it runs
    cypher,
    raw_hits,
    semantic_hits,
    db_rows,
    titles,                \* the titles parameter of the author-discovery query
    answer_text,
    swallowed,             \* the calls whose failure was caught in place
    trace,                 \* the external calls issued, in order
    failed                 \* the call whose exception ended the pipeline

standalone == <<arg, ret, inflight>>
http == <<session_history, status, body_question, question, selected_user_id,
         conversation_history, turn_log, served>>
step0 == <<intent_task, embedding_task, intent_raw, question_embedding>>
resolution == <<author_to_check, updated_intent, res_nodes, outsiders,
               exact_count>>
template == <<cypher_task, semantic_task, cypher, raw_hits, semantic_hits, db_rows,
             titles, answer_text, swallowed>>

vars == <<arg, ret, inflight, session_history, status, pc, body_question, question, turn_log, served,
          selected_user_id, conversation_history,
          intent_task, embedding_task, intent_raw, question_embedding, intent_obj, result,
          author_to_check, updated_intent, res_nodes, outsiders, exact_count, branch, cypher_task, semantic_task, cypher, raw_hits,
          semantic_hits, db_rows, titles, answer_text, swallowed, trace, failed>>

Fresh ==
    /\ status = 0
    /\ pc = "idle"
    /\ served = 0
    /\ body_question = <<>>
    /\ question = <<>>
    /\ selected_user_id = NoneV
    /\ conversation_history = <<>>
    /\ intent_task = "none"
    /\ embedding_task = "none"
    /\ intent_raw = EmptyIntent
    /\ question_embedding = List(<<>>)
    /\ intent_obj = EmptyIntent
    /\ result = InitialResult
    /\ author_to_check = NoneV
    /\ updated_intent = EmptyIntent
    /\ res_nodes = <<>>
    /\ outsiders = {}
    /\ exact_count = 0
    /\ branch = "none"
    /\ cypher_task = "none"
    /\ semantic_task = "none"
    /\ cypher = <<>>
    /\ raw_hits = <<>>
    /\ semantic_hits = <<>>
    /\ db_rows = <<>>
    /\ titles = <<>>
    /\ answer_text = <<>>
    /\ swallowed = {}
    /\ trace = <<>>
    /\ failed = "none"

\* no function is called on its own
NoCall ==
    /\ arg = NoneV
    /\ ret = <<>>
    /\ inflight = <<>>

\* a request arrives on a session whose cookie holds a stored history
Init ==
    /\ session_history \in InitHistories
    /\ turn_log = session_history
    /\ Fresh
    /\ NoCall

(***************************************************************************)
(* api_query (main.py 53-100)                                              *)
(***************************************************************************)
\* question = query.question.strip(); if not question
\* the test without strip()
IsBlank_unstripped(q) == q = <<>>

IsBlank(q) == Strip(q) = <<>>

\* question.strip() is empty: HTTPException 400
ApiQueryReject(q, sel) ==
    /\ pc = "idle"
    /\ IsBlank(q)
    /\ body_question' = q
    /\ question' = Strip(q)
    /\ selected_user_id' = sel
    /\ status' = 400
    /\ served' = served + 1
    /\ pc' = "responded"
    /\ UNCHANGED <<session_history, turn_log, conversation_history, intent_obj, result,
                   trace, failed, branch>>
    /\ UNCHANGED <<standalone, step0, resolution, template>>

\* the session's history is read and answer_question is called; it creates
\* result and the two tasks of step 0
ApiQueryCall(q, sel) ==
    /\ pc = "idle"
    /\ ~IsBlank(q)
    /\ body_question' = q
    /\ question' = Strip(q)
    /\ selected_user_id' = sel
    /\ conversation_history' = session_history
    /\ result' = InitialResult
    /\ intent_task' = "created"
    /\ embedding_task' = "created"
    /\ pc' = "step0"
    /\ UNCHANGED <<session_history, turn_log, served, status, intent_raw,
                   question_embedding, intent_obj, trace, failed, branch>>
    /\ UNCHANGED <<standalone, resolution, template>>

\* the except clause of answer_question (backend.py 768-773)
\* an except clause that answers with a new result
Except_fresh_result(call, e) ==
    /\ result' = [InitialResult EXCEPT !.error = Str(e)]
    /\ failed' = call
    /\ pc' = "returned"

Except(call, e) ==
    /\ result' = [result EXCEPT !.error = Str(e)]
    /\ failed' = call
    /\ pc' = "returned"

\* answer_question has returned: the two turns are appended, the history is
\* trimmed and stored (main.py 72-84)
ApiQueryRespond ==
    /\ pc = "returned"
    /\ session_history' = TrimHistory(AppendTurns(conversation_history, question, result.answer))
    /\ turn_log' = AppendTurns(turn_log, question, result.answer)
    /\ status' = 200
    /\ served' = served + 1
    /\ pc' = "responded"
    /\ UNCHANGED <<body_question, question, selected_user_id, conversation_history,
                   intent_obj, result, trace, failed, branch>>
    /\ UNCHANGED <<standalone, step0, resolution, template>>

(***************************************************************************)
(* answer_question, step 0 (backend.py 611-621)                            *)
(***************************************************************************)
\* intent_task runs to its first suspension: the chat completion is issued
StartIntentTask ==
    /\ pc = "step0"
    /\ intent_task = "created"
    /\ intent_task' = "running"
    /\ trace' = Append(trace, "classify_intent")
    /\ UNCHANGED <<standalone, http, branch, embedding_task, intent_raw, question_embedding, pc, intent_obj,
                   result, failed, resolution, template>>

\* embedding_task runs next: the embedding request is issued
StartEmbeddingTask ==
    /\ pc = "step0"
    /\ embedding_task = "created"
    /\ intent_task # "created"
    /\ embedding_task' = "running"
    /\ trace' = Append(trace, "get_embedding")
    /\ UNCHANGED <<standalone, http, branch, intent_task, intent_raw, question_embedding, pc, intent_obj,
                   result, failed, resolution, template>>

ClassifyIntentDone(reply) ==
    /\ pc = "step0"
    /\ intent_task = "running"
    /\ embedding_task # "created"
    /\ LET r == classify_intent(reply) IN
       IF r.ok
       THEN /\ intent_task' = "done"
            /\ intent_raw' = r.v
            /\ UNCHANGED failed
       ELSE /\ intent_task' = "failed"
            /\ failed' = IF failed = "none" THEN "classify_intent" ELSE failed
            /\ UNCHANGED intent_raw
    /\ UNCHANGED <<standalone, http, branch, embedding_task, question_embedding, pc, intent_obj, result, trace,
                   resolution, template>>

GetEmbeddingDone(reply) ==
    /\ pc = "step0"
    /\ embedding_task = "running"
    /\ LET r == get_embedding(question, reply) IN
       IF r.ok
       THEN /\ embedding_task' = "done"
            /\ question_embedding' = r.v
            /\ UNCHANGED failed
       ELSE /\ embedding_task' = "failed"
            /\ failed' = IF failed = "none" THEN "get_embedding" ELSE failed
            /\ UNCHANGED question_embedding
    /\ UNCHANGED <<standalone, http, branch, intent_task, intent_raw, pc, intent_obj, result, trace,
                   resolution, template>>

\* a step 0 that goes on as soon as the classification has answered
GatherStep0_intent_only ==
    /\ pc = "step0"
    /\ intent_task = "done"
    /\ intent_obj' = normalize_intent(intent_raw)
    /\ result' = [result EXCEPT !.timings = @ \cup {"step0_setup"},
                                !.intent = normalize_intent(intent_raw)]
    /\ pc' = "resolution"
    /\ UNCHANGED <<standalone, http, branch, step0, trace, failed, resolution, template>>

\* asyncio.gather returns both results; the intent is normalized and linked
\* into the response (backend.py 617-621)
GatherStep0 ==
    /\ pc = "step0"
    /\ intent_task = "done"
    /\ embedding_task = "done"
    /\ intent_obj' = normalize_intent(intent_raw)
    /\ result' = [result EXCEPT !.timings = @ \cup {"step0_setup"},
                                !.intent = normalize_intent(intent_raw)]
    /\ pc' = "resolution"
    /\ UNCHANGED <<standalone, http, branch, step0, trace, failed, resolution, template>>

\* a gather that lets a failed embedding pass: the request goes on with the
\* intent alone
GatherStep0Raise_embedding_swallowed ==
    /\ pc = "step0"
    /\ \/ /\ intent_task = "failed"
          /\ Except(failed, <<failed>>)
          /\ UNCHANGED intent_obj
       \/ /\ intent_task = "done"
          /\ embedding_task = "failed"
          /\ intent_obj' = normalize_intent(intent_raw)
          /\ result' = [result EXCEPT !.timings = @ \cup {"step0_setup"},
                                      !.intent = normalize_intent(intent_raw)]
          /\ pc' = "resolution"
          /\ UNCHANGED failed
    /\ UNCHANGED <<standalone, http, branch, step0, trace, resolution, template>>

\* asyncio.gather raises the first exception of its tasks
GatherStep0Raise ==
    /\ pc = "step0"
    /\ intent_task = "failed" \/ embedding_task = "failed"
    /\ Except(failed, <<failed>>)
    /\ UNCHANGED <<standalone, http, branch, step0, intent_obj, trace, resolution, template>>

(***************************************************************************)
(* answer_question, author resolution and promotion (backend.py 623-678)   *)
(* with resolve_author (backend.py 286-347)                                *)
(***************************************************************************)
GraphFailure == <<"graph error">>

\* the orchestrator's handling of what resolve_author returned
\* (backend.py 643-661)
\* a handling that takes a single candidate as the author
AfterResolve_autoselect(name, updated, candidates, res_meta) ==
    LET timed == [result EXCEPT !.resolution = res_meta,
                                !.timings = @ \cup {"author_resolution"}]
        top == [intent_obj EXCEPT
                   !.author = candidates.v[1].name,
                   !.authorUserId = candidates.v[1].userId,
                   !.intent = IF @ = "OPEN_QUESTION"
                              THEN "AUTHOR_PUBLICATIONS_RANGE" ELSE @]
    IN
    /\ updated_intent' = updated
    /\ IF Truthy(candidates) /\ Len(candidates.v) = 1
       THEN /\ intent_obj' = top
            /\ result' = [timed EXCEPT !.intent = top]
            /\ pc' = "route"
       ELSE IF Truthy(candidates)
       THEN /\ result' = [timed EXCEPT !.answer = CandidatesAnswer(name.v),
                                       !.candidates = candidates]
            /\ pc' = "returned"
            /\ UNCHANGED intent_obj
       ELSE /\ result' = timed
            /\ pc' = "route"
            /\ UNCHANGED intent_obj

\* a handling without the return of line 654
AfterResolve_no_return(name, updated, candidates, res_meta) ==
    LET timed == [result EXCEPT !.resolution = res_meta,
                                !.timings = @ \cup {"author_resolution"}]
    IN
    /\ updated_intent' = updated
    /\ result' = IF Truthy(candidates)
                 THEN [timed EXCEPT !.answer = CandidatesAnswer(name.v),
                                    !.candidates = candidates]
                 ELSE timed
    /\ pc' = "route"
    /\ UNCHANGED intent_obj

\* a handling that rewrites whatever kind the classifier gave
AfterResolve_rewrites_any(name, updated, candidates, res_meta) ==
    LET timed == [result EXCEPT !.resolution = res_meta,
                                !.timings = @ \cup {"author_resolution"}]
        promoted == [intent_obj EXCEPT
                        !.author = updated.author,
                        !.authorUserId = updated.authorUserId,
                        !.intent = "AUTHOR_PUBLICATIONS_RANGE"]
    IN
    /\ updated_intent' = updated
    /\ IF Truthy(candidates)
       THEN /\ result' = [timed EXCEPT !.answer = CandidatesAnswer(name.v),
                                       !.candidates = candidates]
            /\ pc' = "returned"
            /\ UNCHANGED intent_obj
       ELSE IF Truthy(updated.authorUserId)
       THEN /\ intent_obj' = promoted
            /\ result' = [timed EXCEPT !.intent = promoted]
            /\ pc' = "route"
       ELSE /\ result' = timed
            /\ pc' = "route"
            /\ UNCHANGED intent_obj

AfterResolve(name, updated, candidates, res_meta) ==
    LET timed == [result EXCEPT !.resolution = res_meta,
                                !.timings = @ \cup {"author_resolution"}]
        promoted == [intent_obj EXCEPT
                        !.author = updated.author,
                        !.authorUserId = updated.authorUserId,
                        !.intent = IF @ = "OPEN_QUESTION"
                                   THEN "AUTHOR_PUBLICATIONS_RANGE" ELSE @]
    IN
    /\ updated_intent' = updated
    /\ IF Truthy(candidates)
       THEN /\ result' = [timed EXCEPT !.answer = CandidatesAnswer(name.v),
                                       !.candidates = candidates]
            /\ pc' = "returned"
            /\ UNCHANGED intent_obj
       ELSE IF Truthy(updated.authorUserId)
       THEN /\ intent_obj' = promoted
            /\ result' = [timed EXCEPT !.intent = promoted]
            /\ pc' = "route"
       ELSE /\ result' = timed
            /\ pc' = "route"
            /\ UNCHANGED intent_obj

\* if author_to_check and not selected_user_id (backend.py 627)
\* the test without "and not selected_user_id"
ShouldResolve_any(author, selected) == Truthy(author)

ShouldResolve(author, selected) == Truthy(author) /\ ~Truthy(selected)

\* no author and no selection: neither branch of the if is taken
SkipResolution ==
    /\ pc = "resolution"
    /\ ~ShouldResolve(intent_obj.author, selected_user_id)
    /\ ~Truthy(selected_user_id)
    /\ author_to_check' = intent_obj.author
    /\ pc' = "route"
    /\ UNCHANGED <<standalone, http, branch, step0, intent_obj, result, updated_intent, res_nodes,
                   outsiders, exact_count, trace, failed, template>>

\* inside the if of line 627: the name extraction is asked for when
\* author_to_check is falsy (630-637), then resolve_author is called on a
\* copy of the intent; a blank name returns at once with path NONE,
\* otherwise the exact lookup is issued
ResolveAuthorCall ==
    /\ pc = "resolution"
    /\ ShouldResolve(intent_obj.author, selected_user_id)
    /\ author_to_check' = intent_obj.author
    /\ LET extraction == IF ~Truthy(intent_obj.author)
                         THEN <<"extract_name">> ELSE <<>>
       IN
       IF Strip(intent_obj.author.v) = <<>>
       THEN /\ trace' = trace \o extraction \o <<"resolve_author">>
            /\ AfterResolve(intent_obj.author, intent_obj, NoneV,
                            [resolution_path |-> "NONE", fuzzy_scores |-> <<>>])
       ELSE /\ trace' = trace \o extraction \o <<"resolve_author", "exact_lookup">>
            /\ pc' = "exact_lookup"
            /\ UNCHANGED <<intent_obj, result, updated_intent>>
    /\ UNCHANGED <<standalone, http, branch, step0, res_nodes, outsiders, exact_count, failed, template>>

\* the exact lookup answers: its single row resolves the author, no row
\* issues the fulltext lookup
ExactLookupDone ==
    /\ pc = "exact_lookup"
    /\ \/ /\ Except("exact_lookup", GraphFailure)
          /\ UNCHANGED <<intent_obj, updated_intent, res_nodes, outsiders, exact_count, trace>>
       \/ \E g \in Graphs :
            LET name == Strip(author_to_check.v) IN
            /\ ExactFirst(g, name) # {}
            /\ \E r \in ExactFirst(g, name) :
                 /\ res_nodes' = <<r>>
                 /\ outsiders' = WithoutIds(NameMatches(g, name))
                 /\ exact_count' = Cardinality(ExactMatches(g, name))
                 /\ AfterResolve(author_to_check,
                                 [intent_obj EXCEPT !.author = ExactRow(r).name,
                                                    !.authorUserId = ExactRow(r).userId],
                                 NoneV,
                                 [resolution_path |-> "EXACT", fuzzy_scores |-> <<>>])
            /\ UNCHANGED <<trace, failed>>
       \/ \E g \in Graphs :
            /\ ExactFirst(g, Strip(author_to_check.v)) = {}
            /\ pc' = "fuzzy_lookup"
            /\ trace' = Append(trace, "fuzzy_lookup")
            /\ UNCHANGED <<intent_obj, result, updated_intent, res_nodes, outsiders, exact_count, failed>>
    /\ UNCHANGED <<standalone, http, branch, step0, author_to_check, template>>

\* the fulltext lookup answers: its rows, best score first, at most five
FuzzyLookupDone ==
    /\ pc = "fuzzy_lookup"
    /\ \/ /\ Except("fuzzy_lookup", GraphFailure)
          /\ UNCHANGED <<intent_obj, updated_intent, res_nodes, outsiders, exact_count>>
       \/ \E g \in Graphs :
            LET nodes == FuzzyMatches(g, FuzzyNameQuery(Strip(author_to_check.v))) IN
            \E score \in [nodes -> ScoreValues] :
            \E order \in FuzzyOrders(nodes, score) :
              LET first == FirstN(order, FUZZY_LIMIT)
                  rows == [i \in 1..Len(first) |-> FuzzyRow(first[i], score[first[i]])]
                  metadata == [resolution_path |-> "FUZZY",
                               fuzzy_scores |-> [i \in 1..Len(rows) |-> rows[i].score]]
              IN
              /\ res_nodes' = first
              /\ outsiders' = WithoutIds(IndexMatches(g, FuzzyNameQuery(Strip(author_to_check.v))))
              /\ UNCHANGED exact_count
              /\ AfterResolve(author_to_check, intent_obj,
                              IF Len(rows) > 0 THEN List(rows) ELSE NoneV, metadata)
              /\ UNCHANGED failed
    /\ UNCHANGED <<standalone, http, branch, step0, author_to_check, trace, template>>

\* a direct selection: the id is taken as it is and the canonical name is
\* looked up (backend.py 663-671)
DirectSelection ==
    /\ pc = "resolution"
    /\ ~ShouldResolve(intent_obj.author, selected_user_id)
    /\ Truthy(selected_user_id)
    /\ author_to_check' = intent_obj.author
    /\ intent_obj' = [intent_obj EXCEPT !.authorUserId = selected_user_id]
    /\ result' = [result EXCEPT !.intent = [intent_obj EXCEPT !.authorUserId = selected_user_id]]
    /\ trace' = Append(trace, "person_lookup")
    /\ pc' = "name_lookup"
    /\ UNCHANGED <<standalone, http, branch, step0, updated_intent, res_nodes, outsiders, exact_count, failed, template>>

PersonUniverse == ResearcherUniverse

\* the name lookup answers; OPEN_QUESTION is promoted (backend.py 672-678)
NameLookupDone ==
    /\ pc = "name_lookup"
    /\ \/ /\ Except("person_lookup", GraphFailure)
          /\ UNCHANGED intent_obj
       \/ \E g \in SUBSET PersonUniverse :
            LET found == {p \in g : p.userId = selected_user_id}
                promote(i) == [i EXCEPT !.intent = IF @ = "OPEN_QUESTION"
                                                   THEN "AUTHOR_MAIN_RESEARCH_AREAS" ELSE @]
            IN
            \E named \in IF found = {}
                         THEN {intent_obj}
                         ELSE {[intent_obj EXCEPT
                                  !.author = Coalesce(p.name, p.normalized_name)] : p \in found} :
              /\ intent_obj' = promote(named)
              /\ result' = [result EXCEPT !.intent = promote(named)]
              /\ pc' = "route"
              /\ UNCHANGED failed
    /\ UNCHANGED <<standalone, http, branch, step0, resolution, trace, template>>

(***************************************************************************)
(* Graph and vector queries (backend.py 262-267, 367-429)                  *)
(***************************************************************************)
RowReplies == {Raised(GraphFailure)} \cup {Ok(rows) : rows \in RowLists}
HitReplies == {Raised(GraphFailure)} \cup {Ok(hits) : hits \in HitLists}
AnswerReplies == {LLMFailure} \cup {LLMText(c) : c \in AnswerContents}
ReaskReplies == {LLMFailure} \cup {LLMText(c) : c \in ReaskContents}
CypherReplies == {LLMFailure} \cup {LLMText(c) : c \in CypherContents}
AuthorCypherReplies == {LLMFailure} \cup {LLMText(c) : c \in AuthorCypherContents}

\* run_cypher: the graph rejects an empty query
run_cypher(query, reply) ==
    IF query = <<>> THEN Raised(GraphFailure) ELSE reply

\* a vector query without the try/except: the failure comes back as a hit
VectorQuery_leaking(reply) == IF reply.ok THEN reply.v ELSE <<Hit(NoneV, 0)>>

\* the try/except around a vector query: a failure is the empty list
VectorQuery(reply) == IF reply.ok THEN reply.v ELSE <<>>

_semantic_search_with_embedding(embedding, reply) ==
    IF ~Truthy(embedding) THEN <<>> ELSE VectorQuery(reply)

\* [h for h in raw_hits if h.get("score", 0) >= MIN_RELEVANCE_SCORE]
\* a filter that keeps every hit
RelevantHits_all(hits) == hits

RelevantHits(hits) ==
    SelectSeq(hits, LAMBDA h : (IF "score" \in DOMAIN h THEN h.score ELSE 0)
                                  >= MIN_RELEVANCE_SCORE)

\* [hit.get("title") for hit in semantic_hits if hit.get("title")]
Titles(hits) ==
    LET titled == SelectSeq(hits, LAMBDA h : Truthy(h.title))
    IN [i \in 1..Len(titled) |-> titled[i].title]

\* cypher.replace(fence_cypher, "").replace(fence, "").strip()
StripFences(text) ==
    Strip(SelectSeq(text, LAMBDA tok : tok \notin {FENCE_CYPHER, FENCE}))

(***************************************************************************)
(* answer_question, step 4: branching (backend.py 680-766)                 *)
(***************************************************************************)
\* the planner: the template branch creates its tasks, the semantic branch
\* issues the cohort search with the question embedding
Route ==
    /\ pc = "route"
    /\ IF is_template_intent(intent_obj) /\ has_required_slots(intent_obj)
       THEN /\ cypher_task' = "created"
            /\ semantic_task' = IF intent_obj.intent \in TOPIC_INTENTS
                                THEN "created" ELSE "none"
            /\ pc' = "template"
            /\ branch' = "template"
            /\ UNCHANGED trace
       ELSE /\ pc' = "open_search"
            /\ branch' = "semantic"
            /\ trace' = Append(trace, "cohort_search")
            /\ UNCHANGED <<cypher_task, semantic_task>>
    /\ UNCHANGED <<standalone, http, titles, step0, intent_obj, result, resolution, cypher, raw_hits,
                   semantic_hits, db_rows, answer_text, swallowed, failed>>

\* cypher_task runs to its first suspension: the chat completion is issued
StartCypherTask ==
    /\ pc = "template"
    /\ cypher_task = "created"
    /\ cypher_task' = "running"
    /\ trace' = Append(trace, "generate_cypher")
    /\ UNCHANGED <<standalone, http, titles, branch, step0, pc, intent_obj, result, resolution, semantic_task, cypher,
                   raw_hits, semantic_hits, db_rows, answer_text, swallowed, failed>>

\* semantic_task runs next: semantic_search_publications returns [] for no
\* topic, otherwise it requests the embedding of the topic
StartSemanticTask ==
    /\ pc = "template"
    /\ semantic_task = "created"
    /\ cypher_task # "created"
    /\ IF ~Truthy(intent_obj.topic)
       THEN /\ semantic_task' = "done"
            /\ raw_hits' = <<>>
            /\ UNCHANGED trace
       ELSE /\ semantic_task' = "embedding"
            /\ trace' = Append(trace, "get_embedding_topic")
            /\ UNCHANGED raw_hits
    /\ UNCHANGED <<standalone, http, titles, branch, step0, pc, intent_obj, result, resolution, cypher_task, cypher,
                   semantic_hits, db_rows, answer_text, swallowed, failed>>

GenerateCypherDone(reply) ==
    /\ pc = "template"
    /\ cypher_task = "running"
    /\ semantic_task # "created"
    /\ LET r == call_llm(reply) IN
       IF r.ok
       THEN /\ cypher_task' = "done"
            /\ cypher' = Strip(r.v)
            /\ UNCHANGED failed
       ELSE /\ cypher_task' = "failed"
            /\ failed' = IF failed = "none" THEN "generate_cypher" ELSE failed
            /\ UNCHANGED cypher
    /\ UNCHANGED <<standalone, http, titles, branch, step0, pc, intent_obj, result, resolution, semantic_task, raw_hits,
                   semantic_hits, db_rows, answer_text, swallowed, trace>>

\* the topic embedding arrives and the vector query is issued; a failure of
\* the embedding call is outside the try of semantic_search_publications
TopicEmbeddingDone(reply) ==
    /\ pc = "template"
    /\ semantic_task = "embedding"
    /\ LET r == get_embedding(intent_obj.topic.v, reply) IN
       IF ~r.ok
       THEN /\ semantic_task' = "failed"
            /\ failed' = IF failed = "none" THEN "get_embedding_topic" ELSE failed
            /\ UNCHANGED <<raw_hits, trace>>
       ELSE IF ~Truthy(r.v)
       THEN /\ semantic_task' = "done"
            /\ raw_hits' = <<>>
            /\ UNCHANGED <<failed, trace>>
       ELSE /\ semantic_task' = "searching"
            /\ trace' = Append(trace, "topic_search")
            /\ UNCHANGED <<failed, raw_hits>>
    /\ UNCHANGED <<standalone, http, titles, branch, step0, pc, intent_obj, result, resolution, cypher_task, cypher,
                   semantic_hits, db_rows, answer_text, swallowed>>

TopicSearchDone(reply) ==
    /\ pc = "template"
    /\ semantic_task = "searching"
    /\ semantic_task' = "done"
    /\ raw_hits' = VectorQuery(reply)
    /\ swallowed' = IF reply.ok THEN swallowed ELSE swallowed \cup {"topic_search"}
    /\ UNCHANGED <<standalone, http, titles, branch, step0, pc, intent_obj, result, resolution, cypher_task, cypher,
                   semantic_hits, db_rows, answer_text, trace, failed>>

\* a template branch that awaits the generated query alone
GatherTemplate_cypher_only ==
    /\ pc = "template"
    /\ cypher_task = "done"
    /\ semantic_hits' = RelevantHits(raw_hits)
    /\ result' = [result EXCEPT !.timings = @ \cup {"speculative_generation"},
                                !.cypher = cypher]
    /\ trace' = Append(trace, "run_cypher")
    /\ pc' = "db_query"
    /\ UNCHANGED <<standalone, http, titles, branch, step0, intent_obj, resolution, cypher_task, semantic_task, cypher,
                   raw_hits, db_rows, answer_text, swallowed, failed>>

\* both awaited: the topic hits are filtered and the generated query is
\* handed to run_cypher (backend.py 690-699)
GatherTemplate ==
    /\ pc = "template"
    /\ cypher_task = "done"
    /\ semantic_task \in {"none", "done"}
    /\ semantic_hits' = RelevantHits(raw_hits)
    /\ result' = [result EXCEPT !.timings = @ \cup {"speculative_generation"},
                                !.cypher = cypher]
    /\ trace' = Append(trace, "run_cypher")
    /\ pc' = "db_query"
    /\ UNCHANGED <<standalone, http, titles, branch, step0, intent_obj, resolution, cypher_task, semantic_task, cypher,
                   raw_hits, db_rows, answer_text, swallowed, failed>>

GatherTemplateRaise ==
    /\ pc = "template"
    /\ cypher_task = "failed" \/ semantic_task = "failed"
    /\ Except(failed, <<failed>>)
    /\ UNCHANGED <<standalone, http, branch, step0, intent_obj, resolution, template, trace>>

\* a template branch that falls back whenever the query has no rows
RunCypherDone_rows_only(reply) ==
    /\ pc = "db_query"
    /\ LET r == run_cypher(cypher, reply) IN
       IF ~r.ok
       THEN /\ Except("run_cypher", r.e)
            /\ UNCHANGED <<db_rows, trace>>
       ELSE /\ db_rows' = r.v
            /\ result' = [result EXCEPT !.timings = @ \cup {"db_query"},
                                        !.dbRows = r.v,
                                        !.semanticHits = semantic_hits]
            /\ IF r.v = <<>>
               THEN /\ pc' = "fallback"
                    /\ trace' = Append(trace, "cohort_search")
               ELSE /\ pc' = "synthesis"
                    /\ trace' = Append(trace, "synthesize_answer")
            /\ UNCHANGED failed
    /\ UNCHANGED <<standalone, http, titles, branch, step0, intent_obj, resolution, cypher_task, semantic_task, cypher,
                   raw_hits, semantic_hits, answer_text, swallowed>>

\* the rows arrive; with neither rows nor hits the cohort search is issued,
\* otherwise the synthesis (backend.py 699-721)
RunCypherDone(reply) ==
    /\ pc = "db_query"
    /\ LET r == run_cypher(cypher, reply) IN
       IF ~r.ok
       THEN /\ Except("run_cypher", r.e)
            /\ UNCHANGED <<db_rows, trace>>
       ELSE /\ db_rows' = r.v
            /\ result' = [result EXCEPT !.timings = @ \cup {"db_query"},
                                        !.dbRows = r.v,
                                        !.semanticHits = semantic_hits]
            /\ IF r.v = <<>> /\ semantic_hits = <<>>
               THEN /\ pc' = "fallback"
                    /\ trace' = Append(trace, "cohort_search")
               ELSE /\ pc' = "synthesis"
                    /\ trace' = Append(trace, "synthesize_answer")
            /\ UNCHANGED failed
    /\ UNCHANGED <<standalone, http, titles, branch, step0, intent_obj, resolution, cypher_task, semantic_task, cypher,
                   raw_hits, semantic_hits, answer_text, swallowed>>

\* a fallback that asks for the embedding of the question again
FallbackDone_reembed(reply) ==
    /\ pc = "fallback"
    /\ semantic_hits' = _semantic_search_with_embedding(question_embedding, reply)
    /\ swallowed' = IF reply.ok THEN swallowed ELSE swallowed \cup {"cohort_search"}
    /\ result' = [result EXCEPT
                    !.timings = @ \cup {"semantic_fallback"},
                    !.semanticHits = _semantic_search_with_embedding(question_embedding, reply)]
    /\ trace' = trace \o <<"get_embedding", "synthesize_answer">>
    /\ pc' = "synthesis"
    /\ UNCHANGED <<standalone, http, titles, branch, step0, intent_obj, resolution, cypher_task, semantic_task, cypher,
                   raw_hits, db_rows, answer_text, failed>>

FallbackDone(reply) ==
    /\ pc = "fallback"
    /\ semantic_hits' = _semantic_search_with_embedding(question_embedding, reply)
    /\ swallowed' = IF reply.ok THEN swallowed ELSE swallowed \cup {"cohort_search"}
    /\ result' = [result EXCEPT
                    !.timings = @ \cup {"semantic_fallback"},
                    !.semanticHits = _semantic_search_with_embedding(question_embedding, reply)]
    /\ trace' = Append(trace, "synthesize_answer")
    /\ pc' = "synthesis"
    /\ UNCHANGED <<standalone, http, titles, branch, step0, intent_obj, resolution, cypher_task, semantic_task, cypher,
                   raw_hits, db_rows, answer_text, failed>>

\* a synthesis that builds its messages in the caller's list
SynthesizeDone_in_place(reply) ==
    /\ pc = "synthesis"
    /\ conversation_history' =
          Append(conversation_history, [role |-> "user", content |-> question])
    /\ LET r == call_llm(reply) IN
       IF ~r.ok
       THEN /\ Except("synthesize_answer", r.e)
            /\ UNCHANGED <<answer_text, trace>>
       ELSE /\ answer_text' = Strip(r.v)
            /\ IF db_rows = <<>> /\ semantic_hits # <<>>
               THEN /\ result' = [result EXCEPT !.timings = @ \cup {"synthesis"}]
                    /\ trace' = Append(trace, "recursive_semantic_answer")
                    /\ pc' = "reask"
               ELSE /\ result' = [result EXCEPT !.timings = @ \cup {"synthesis", "total"},
                                                !.answer = Strip(r.v)]
                    /\ pc' = "returned"
                    /\ UNCHANGED trace
            /\ UNCHANGED failed
    /\ UNCHANGED <<standalone, session_history, status, body_question, question, selected_user_id,
                   turn_log, served, titles, branch, step0, intent_obj, resolution, cypher_task,
                   semantic_task, cypher, raw_hits, semantic_hits, db_rows, swallowed>>

\* the first answer arrives; without rows but with hits the re-ask is issued
SynthesizeDone(reply) ==
    /\ pc = "synthesis"
    /\ LET r == call_llm(reply) IN
       IF ~r.ok
       THEN /\ Except("synthesize_answer", r.e)
            /\ UNCHANGED <<answer_text, trace>>
       ELSE /\ answer_text' = Strip(r.v)
            /\ IF db_rows = <<>> /\ semantic_hits # <<>>
               THEN /\ result' = [result EXCEPT !.timings = @ \cup {"synthesis"}]
                    /\ trace' = Append(trace, "recursive_semantic_answer")
                    /\ pc' = "reask"
               ELSE /\ result' = [result EXCEPT !.timings = @ \cup {"synthesis", "total"},
                                                !.answer = Strip(r.v)]
                    /\ pc' = "returned"
                    /\ UNCHANGED trace
            /\ UNCHANGED failed
    /\ UNCHANGED <<standalone, http, titles, branch, step0, intent_obj, resolution, cypher_task, semantic_task, cypher,
                   raw_hits, semantic_hits, db_rows, swallowed>>

\* a re-ask whose output is dropped
ReaskDone_first_answer(reply) ==
    /\ pc = "reask"
    /\ swallowed' = IF call_llm(reply).ok
                    THEN swallowed ELSE swallowed \cup {"recursive_semantic_answer"}
    /\ result' = [result EXCEPT !.timings = @ \cup {"total"}, !.answer = answer_text]
    /\ pc' = "returned"
    /\ UNCHANGED <<standalone, http, titles, branch, step0, intent_obj, resolution, cypher_task, semantic_task, cypher,
                   raw_hits, semantic_hits, db_rows, answer_text, trace, failed>>

\* a re-ask whose except clause reports the failure in the response
ReaskDone_error_reported(reply) ==
    /\ pc = "reask"
    /\ LET r == call_llm(reply)
           text == IF r.ok THEN r.v ELSE answer_text
       IN
       /\ answer_text' = text
       /\ swallowed' = IF r.ok THEN swallowed ELSE swallowed \cup {"recursive_semantic_answer"}
       /\ result' = [result EXCEPT !.timings = @ \cup {"total"}, !.answer = text,
                                   !.error = IF r.ok THEN @ ELSE Str(r.e)]
    /\ pc' = "returned"
    /\ UNCHANGED <<standalone, http, titles, branch, step0, intent_obj, resolution, cypher_task, semantic_task, cypher,
                   raw_hits, semantic_hits, db_rows, trace, failed>>

\* the re-ask answers, or fails and is passed over (backend.py 725-730)
ReaskDone(reply) ==
    /\ pc = "reask"
    /\ LET r == call_llm(reply)
           text == IF r.ok THEN r.v ELSE answer_text
       IN
       /\ answer_text' = text
       /\ swallowed' = IF r.ok THEN swallowed ELSE swallowed \cup {"recursive_semantic_answer"}
       /\ result' = [result EXCEPT !.timings = @ \cup {"total"}, !.answer = text]
    /\ pc' = "returned"
    /\ UNCHANGED <<standalone, http, titles, branch, step0, intent_obj, resolution, cypher_task, semantic_task, cypher,
                   raw_hits, semantic_hits, db_rows, trace, failed>>

\* branch B: the cohort search answers; no hit ends the request with the
\* guidance message, otherwise author discovery starts (backend.py 735-755)
OpenSearchDone(reply) ==
    /\ pc = "open_search"
    /\ LET sem_hits == _semantic_search_with_embedding(question_embedding, reply) IN
       /\ semantic_hits' = sem_hits
       /\ swallowed' = IF reply.ok THEN swallowed ELSE swallowed \cup {"cohort_search"}
       /\ IF sem_hits = <<>>
          THEN /\ result' = [result EXCEPT !.semanticHits = sem_hits,
                                           !.answer = GUIDANCE_ANSWER,
                                           !.timings = @ \cup {"open_question"}]
               /\ pc' = "returned"
               /\ UNCHANGED <<trace, titles>>
          ELSE IF Titles(sem_hits) = <<>>
          THEN \* generate_author_cypher returns "" without asking the LLM
               /\ result' = [result EXCEPT !.semanticHits = sem_hits, !.cypher = <<>>]
               /\ titles' = Titles(sem_hits)
               /\ pc' = "discovery_run"
               /\ trace' = Append(trace, "run_cypher")
          ELSE /\ result' = [result EXCEPT !.semanticHits = sem_hits]
               /\ pc' = "discovery_gen"
               /\ trace' = Append(trace, "generate_author_cypher")
               /\ UNCHANGED titles
    /\ UNCHANGED <<standalone, http, branch, step0, intent_obj, resolution, cypher_task, semantic_task, cypher,
                   raw_hits, db_rows, answer_text, failed>>

AuthorCypherDone(reply) ==
    /\ pc = "discovery_gen"
    /\ LET r == call_llm(reply) IN
       IF ~r.ok
       THEN /\ Except("generate_author_cypher", r.e)
            /\ UNCHANGED <<cypher, titles, trace>>
       ELSE /\ cypher' = StripFences(r.v)
            /\ result' = [result EXCEPT !.cypher = StripFences(r.v)]
            /\ titles' = Titles(semantic_hits)
            /\ pc' = "discovery_run"
            /\ trace' = Append(trace, "run_cypher")
            /\ UNCHANGED failed
    /\ UNCHANGED <<standalone, http, branch, step0, intent_obj, resolution, cypher_task, semantic_task,
                   raw_hits, semantic_hits, db_rows, answer_text, swallowed>>

AuthorRowsDone(reply) ==
    /\ pc = "discovery_run"
    /\ LET r == run_cypher(cypher, reply) IN
       IF ~r.ok
       THEN /\ Except("run_cypher", r.e)
            /\ UNCHANGED <<db_rows, trace>>
       ELSE /\ db_rows' = r.v
            /\ result' = [result EXCEPT !.timings = @ \cup {"author_discovery"},
                                        !.dbRows = r.v]
            /\ pc' = "final_synthesis"
            /\ trace' = Append(trace, "synthesize_final_author_answer")
            /\ UNCHANGED failed
    /\ UNCHANGED <<standalone, http, titles, branch, step0, intent_obj, resolution, cypher_task, semantic_task, cypher,
                   raw_hits, semantic_hits, answer_text, swallowed>>

FinalSynthesisDone(reply) ==
    /\ pc = "final_synthesis"
    /\ LET r == call_llm(reply) IN
       IF ~r.ok
       THEN /\ Except("synthesize_final_author_answer", r.e)
            /\ UNCHANGED answer_text
       ELSE /\ answer_text' = Strip(r.v)
            /\ result' = [result EXCEPT
                            !.timings = @ \cup {"synthesis", "open_question_pipeline", "total"},
                            !.answer = Strip(r.v)]
            /\ pc' = "returned"
            /\ UNCHANGED failed
    /\ UNCHANGED <<standalone, http, titles, branch, step0, intent_obj, resolution, cypher_task, semantic_task, cypher,
                   raw_hits, semantic_hits, db_rows, swallowed, trace>>

(***************************************************************************)
(* Specification: one request of a session, every suspension point a step  *)
(***************************************************************************)
Next ==
    \/ \E q \in Questions, sel \in SelectedIds : ApiQueryReject(q, sel)
    \/ \E q \in Questions, sel \in SelectedIds : ApiQueryCall(q, sel)
    \/ StartIntentTask
    \/ StartEmbeddingTask
    \/ \E reply \in ClassifierReplies : ClassifyIntentDone(reply)
    \/ \E reply \in EmbeddingReplies : GetEmbeddingDone(reply)
    \/ GatherStep0
    \/ GatherStep0Raise
    \/ SkipResolution
    \/ ResolveAuthorCall
    \/ ExactLookupDone
    \/ FuzzyLookupDone
    \/ DirectSelection
    \/ NameLookupDone
    \/ Route
    \/ StartCypherTask
    \/ StartSemanticTask
    \/ \E reply \in CypherReplies : GenerateCypherDone(reply)
    \/ \E reply \in EmbeddingReplies : TopicEmbeddingDone(reply)
    \/ \E reply \in HitReplies : TopicSearchDone(reply)
    \/ GatherTemplate
    \/ GatherTemplateRaise
    \/ \E reply \in RowReplies : RunCypherDone(reply)
    \/ \E reply \in HitReplies : FallbackDone(reply)
    \/ \E reply \in AnswerReplies : SynthesizeDone(reply)
    \/ \E reply \in ReaskReplies : ReaskDone(reply)
    \/ \E reply \in HitReplies : OpenSearchDone(reply)
    \/ \E reply \in AuthorCypherReplies : AuthorCypherDone(reply)
    \/ \E reply \in RowReplies : AuthorRowsDone(reply)
    \/ \E reply \in AnswerReplies : FinalSynthesisDone(reply)
    \/ ApiQueryRespond

Spec == Init /\ [][Next]_vars

(***************************************************************************)
(* A session: one browser session sends request after request; each        *)
(* request is one run of api_query, taken as a whole, and answer_question  *)
(* answers with any of the texts the pipeline above can return.            *)
(***************************************************************************)
MaxRequests == 6

\* the values result["answer"] takes when answer_question returns
PipelineAnswers ==
    {INTERNAL_ERROR_ANSWER, GUIDANCE_ANSWER, <<"first answer">>}
        \cup {CandidatesAnswer(a.v) : a \in {x \in AuthorValues : Truthy(x)}}

SessionAnswers == {INTERNAL_ERROR_ANSWER, GUIDANCE_ANSWER, <<"first answer">>,
                   CandidatesAnswer(<<"A","x">>)}

InitSession ==
    /\ session_history = <<>>
    /\ turn_log = <<>>
    /\ Fresh
    /\ NoCall

pipeline == <<pc, selected_user_id, conversation_history, intent_obj, result, trace, failed,
              branch, step0, resolution, template>>

\* api_query with a blank question (main.py 59-61)
SessionReject(q) ==
    /\ served < MaxRequests
    /\ IsBlank(q)
    /\ body_question' = q
    /\ question' = Strip(q)
    /\ status' = 400
    /\ served' = served + 1
    /\ UNCHANGED <<standalone, session_history, turn_log, pipeline>>

\* api_query from the read of the session to the store (main.py 59-84)
SessionQuery(q, answer) ==
    /\ served < MaxRequests
    /\ ~IsBlank(q)
    /\ body_question' = q
    /\ question' = Strip(q)
    /\ session_history' = TrimHistory(AppendTurns(session_history, Strip(q), answer))
    /\ turn_log' = AppendTurns(turn_log, Strip(q), answer)
    /\ status' = 200
    /\ served' = served + 1
    /\ UNCHANGED <<standalone, pipeline>>

NextSession ==
    \/ \E q \in Questions : SessionReject(q)
    \/ \E q \in Questions, answer \in SessionAnswers : SessionQuery(q, answer)

SpecSession == InitSession /\ [][NextSession]_vars

(***************************************************************************)
(* Two requests of one session served at once (main.py 63-84)              *)
(***************************************************************************)
\* both requests arrive with the cookie of the session; neither has run
InitConcurrent ==
    /\ session_history \in InitHistories
    /\ turn_log = session_history
    /\ Fresh
    /\ arg = NoneV
    /\ ret = <<>>
    /\ inflight = [r \in {1, 2} |-> [at |-> "arrived"]]

\* request.session.get("conversation_history", []): the handler of request r
\* reads the history the session holds for it (main.py 59-65) and awaits
\* answer_question
ConcurrentRead(r) ==
    /\ inflight[r].at = "arrived"
    /\ inflight' = [inflight EXCEPT ![r] =
                        [at |-> "awaiting",
                         question |-> Strip(<<" ", "q", ToString(r), " ">>),
                         history |-> session_history,
                         seen |-> served]]
    /\ UNCHANGED <<arg, ret, http, pipeline>>

\* answer_question has returned: the handler appends the two turns to the
\* list it read, trims it and stores it as the history of the session
\* (main.py 72-84)
ConcurrentWrite(r, answer) ==
    /\ inflight[r].at = "awaiting"
    /\ session_history' = TrimHistory(AppendTurns(inflight[r].history,
                                                  inflight[r].question, answer))
    /\ turn_log' = AppendTurns(turn_log, inflight[r].question, answer)
    /\ status' = 200
    /\ served' = served + 1
    /\ inflight' = [inflight EXCEPT ![r] =
                        [at |-> "done", question |-> inflight[r].question,
                         answer |-> answer, seen |-> inflight[r].seen]]
    /\ UNCHANGED <<arg, ret, body_question, question, pipeline>>

NextConcurrent ==
    \/ \E r \in {1, 2} : ConcurrentRead(r)
    \/ \E r \in {1, 2}, answer \in SessionAnswers : ConcurrentWrite(r, answer)

SpecConcurrent == InitConcurrent /\ [][NextConcurrent]_vars

(***************************************************************************)
(* handle_query of the Flask prototype: the pin and the disambiguation     *)
(* pass (src/new.py 730-797)                                               *)
(***************************************************************************)
MaxDialog == 3

\* the Researcher nodes; normalized_name is written by the loader as
\* toLower(trim(first_name + ' ' + last_name)), which keeps the blanks inside
\* (a first_name "Bob " gives "bob  ray")
Researchers == {
    [name |-> <<"A","n","n"," ","L","e","e">>,
     normalized_name |-> <<"a","n","n"," ","l","e","e">>],
    [name |-> <<"A","n","n"," ","K","i","m">>,
     normalized_name |-> <<"a","n","n"," ","k","i","m">>],
    [name |-> <<"B","o","b"," ","R","a","y">>,
     normalized_name |-> <<"b","o","b"," "," ","r","a","y">>] }

\* Cypher's CONTAINS
Contains(s, t) ==
    \E i \in 0..(Len(s) - Len(t)) : SubSeq(s, i + 1, i + Len(t)) = t

\* re.sub(r"\s+", " ", (s or "").strip()).lower()
_normalize(s) == Lower(Join(Split(s)))

\* the researchers whose normalized_name or lowercased name contains one of
\* the tokens; no token, no lookup
_lookup_name_candidates(tokens) ==
    {r \in Researchers : \E t \in tokens :
        Contains(r.normalized_name, t) \/ Contains(Lower(r.name), t)}

\* the fallback: the words of three letters or more of the normalized text
\* are looked up the same way; one candidate per normalized_name
_find_name_candidates(free_text) ==
    LET words == Split(_normalize(free_text))
        tokens == {words[i] : i \in {j \in 1..Len(words) : Len(words[j]) >= 3}}
    IN {r \in Researchers : \E t \in tokens :
           Contains(r.normalized_name, t) \/ Contains(Lower(r.name), t)}

\* handle_query up to the routing: the scan for the pin, the unpinning when
\* the last real question names someone else, the disambiguation pass; what
\* follows line 797 answers the last real question for the pin when one is
\* set
handle_query(history_list) ==
    LET content(i) == Lower(Strip(history_list[i].content))
        is_select(i) == content(i) # <<>> /\ Head(content(i)) = "select_researcher:"
        selections == {i \in 1..Len(history_list) : is_select(i)}
        last_selection == CHOOSE i \in selections : \A j \in selections : j <= i
        scanned == IF selections = {} THEN <<>>
                   ELSE _normalize(Tail(content(last_selection)))
        real == {i \in 1..Len(history_list) :
                    /\ history_list[i].role = "user"
                    /\ content(i) \notin {<<"shallow">>, <<"deep">>}
                    /\ ~is_select(i)}
        orig_question ==
            IF real = {} THEN <<>>
            ELSE Strip(history_list[CHOOSE i \in real : \A j \in real : j <= i].content)
        words == Split(orig_question)
        STOP_WORDS == {<<"w","h","o">>, <<"t","h","e">>, <<"f","o","r">>}
        name_tokens ==
            {Lower(words[i]) : i \in {j \in 1..Len(words) :
                /\ Len(words[j]) >= 3
                /\ \E k \in 1..Len(Upper) : Upper[k] = words[j][1]
                /\ Lower(words[j]) \notin STOP_WORDS}}
        selected_norm ==
            IF scanned # <<>> /\ name_tokens # {}
               /\ _lookup_name_candidates(name_tokens) # {}
               /\ \A c \in _lookup_name_candidates(name_tokens) :
                     c.normalized_name # scanned
            THEN <<>> ELSE scanned
        looked_up == _lookup_name_candidates(name_tokens)
        candidates == IF looked_up # {} THEN looked_up
                      ELSE _find_name_candidates(orig_question)
    IN
    IF history_list = <<>> THEN [response_type |-> "error", status |-> 400]
    ELSE IF selected_norm = <<>> /\ candidates # {}
    THEN [response_type |-> "researcher_disambiguation", candidates |-> candidates]
    ELSE [response_type |-> "routed", last_real_msg |-> orig_question,
          selected_norm |-> selected_norm]

InitDialog ==
    /\ arg = [history |-> <<>>]
    /\ ret = <<>>
    /\ inflight = <<>>
    /\ session_history = <<>>
    /\ turn_log = <<>>
    /\ Fresh

\* the client appends the message of the user to the history it keeps and
\* posts it; the response is recorded
PostQuery(message) ==
    /\ Len(arg.history) < MaxDialog
    /\ arg' = [history |-> Append(arg.history, Turn("user", message))]
    /\ ret' = Append(ret, handle_query(Append(arg.history, Turn("user", message))))
    /\ UNCHANGED <<inflight, http, pipeline>>

\* the user asks about a researcher, or picks one of the candidates the last
\* response offered
NextDialog ==
    \/ \E message \in {<<"b","y"," ","A","n","n"," ","L","e","e">>,
                       <<"b","y"," ","A","n","n"," ","K","i","m">>,
                       <<"b","y"," ","a","n","n"," ","k","i","m">>,
                       <<"b","y"," ","B","o","b"," ","R","a","y">>,
                       <<"b","y"," ","b","o","b"," ","r","a","y">>,
                       <<"W","h","o"," ","i","s"," ","E","v","e">>} :
          PostQuery(message)
    \/ /\ ret # <<>>
       /\ ret[Len(ret)].response_type = "researcher_disambiguation"
       /\ \E c \in ret[Len(ret)].candidates :
             PostQuery(<<"select_researcher:">> \o c.normalized_name)

SpecDialog == InitDialog /\ [][NextDialog]_vars

(***************************************************************************)
(* Properties                                                              *)
(***************************************************************************)
Returned == pc \in {"returned", "responded"} /\ status # 400
Answered == pc = "responded" /\ status # 400

\* the answers of a session are answers of the pipeline
AnswersOfPipeline ==
    /\ Returned => result.answer \in PipelineAnswers \cup {<<"second answer">>, <<>>}
    /\ SessionAnswers \subseteq PipelineAnswers

Calls == Range(trace)

\* C1: for an intent kind that needs an author, the template branch is taken
\* (and generate_cypher called) only with a populated authorUserId; without
\* it the request takes the semantic branch and generate_cypher is never called.
C1_AuthorIdGatesTemplate ==
    /\ "generate_cypher" \in Calls => branch = "template"
    /\ (branch = "none") => (cypher_task = "none" /\ "generate_cypher" \notin Calls)
    /\ intent_obj.intent \in AUTHOR_INTENTS_REQUIRING_AUTHOR =>
          /\ branch = "template" => Truthy(intent_obj.authorUserId)
          /\ (branch # "none" /\ ~Truthy(intent_obj.authorUserId)) =>
                /\ branch = "semantic"
                /\ cypher_task = "none"
                /\ "generate_cypher" \notin Calls
                /\ "cohort_search" \in Calls

\* an author-requiring kind without an id has been answered by the semantic branch
C1_Witness ==
    /\ Answered
    /\ intent_obj.intent \in AUTHOR_INTENTS_REQUIRING_AUTHOR
    /\ Truthy(intent_obj.author)
    /\ ~Truthy(intent_obj.authorUserId)
    /\ branch = "semantic"

C3_OnlyIdentifiedResearchers ==
    /\ \A i \in 1..Len(res_nodes) :
          res_nodes[i].userId # NoneV \/ res_nodes[i].ccid # NoneV
    /\ result.candidates # NoneV =>
          /\ Len(result.candidates.v) = Len(res_nodes)
          /\ \A i \in 1..Len(res_nodes) :
                /\ result.candidates.v[i].userId = res_nodes[i].userId
                /\ result.candidates.v[i].normalized_name = res_nodes[i].normalized_name
    /\ result.resolution.resolution_path = "EXACT" =>
          /\ Len(res_nodes) = 1
          /\ updated_intent.authorUserId = res_nodes[1].userId

\* the exact lookup resolved an author while a researcher without identifiers
\* had the same name
C3_Witness ==
    /\ Answered
    /\ result.resolution.resolution_path = "EXACT"
    /\ outsiders # {}
    /\ Truthy(intent_obj.authorUserId)

\* C4: a request that passes validation leaves the stored history equal to
\* the history before it plus its user turn and then its assistant turn
\* (of which the last ten are kept); the history is untouched until
\* answer_question has returned.
C4_HistoryAppendedOnce ==
    /\ (pc \notin {"idle", "responded"}) =>
          /\ session_history = conversation_history
          /\ turn_log = conversation_history
    /\ Answered =>
          /\ status = 200
          /\ turn_log = conversation_history
                  \o <<[role |-> "user", content |-> question],
                       [role |-> "assistant", content |-> result.answer]>>
          /\ session_history = LastN(turn_log, 10)

\* a failed request on a full history has been answered
C4_Witness ==
    /\ Answered
    /\ Len(conversation_history) = 10
    /\ result.error # NoneV

\* C5: after any sequence of requests the stored history holds at most ten
\* turns, and they are the most recent turns in their original order.
C5_HistoryWindow ==
    /\ Len(session_history) <= 10
    /\ Len(session_history) = IF Len(turn_log) < 10 THEN Len(turn_log) ELSE 10
    /\ \A i \in 1..Len(session_history) :
          session_history[i] = turn_log[Len(turn_log) - Len(session_history) + i]

\* six exchanges have been stored: two turns of the first one are gone
C5_Witness ==
    /\ Len(turn_log) = 12
    /\ Len(session_history) = 10
    /\ turn_log[2] # turn_log[4]
    /\ turn_log[2] # turn_log[12]

\* an external call whose failure does not reach the except clause
Swallowed == swallowed # {}

\* C6 as stated: whichever external call fails, the response has error set.
C6_EveryFailureSetsError ==
    (Returned /\ (failed # "none" \/ Swallowed)) => result.error # NoneV

ResponseKeys == {"answer", "intent", "cypher", "dbRows", "semanticHits", "timings", "resolution"}

\* C6 (amended): answer_question always returns a response with answer,
\* intent, cypher, dbRows, semanticHits and telemetry, and the HTTP status is
\* 200; a failed external call sets error and keeps every telemetry entry and
\* every field written before it, except that a failed vector search and a
\* failed second-pass answer are passed over without setting error.
C6_FailureIsReturned ==
    /\ [](/\ ResponseKeys \subseteq DOMAIN result
          /\ Answered => status = 200
          /\ failed # "none" =>
                \/ Returned /\ result.error # NoneV
                \/ pc = "step0" /\ "failed" \in {intent_task, embedding_task}
                \/ pc = "template" /\ "failed" \in {cypher_task, semantic_task}
          /\ (Returned /\ result.error # NoneV) => failed # "none")
    /\ [][(pc # "returned" /\ pc' = "returned" /\ failed' # "none") =>
             result' = [result EXCEPT !.error = result'.error]]_vars

\* the graph query of the template branch failed after telemetry was recorded
C6_Witness ==
    /\ Answered
    /\ failed = "run_cypher"
    /\ result.error # NoneV
    /\ {"step0_setup", "speculative_generation"} \subseteq result.timings
    /\ result.cypher # <<>>

\* C7: a request whose question is empty or only whitespace is answered 400,
\* answer_question is not called and the stored history is unchanged.
C7_BlankQuestionRejected ==
    /\ (pc # "idle" /\ Strip(body_question) = <<>>) =>
          /\ status = 400
          /\ pc = "responded"
          /\ Calls = {}
          /\ intent_task = "none" /\ embedding_task = "none"
          /\ result = InitialResult
          /\ session_history = turn_log
          /\ session_history \in InitHistories
    /\ status = 400 => Strip(body_question) = <<>>

\* a whitespace question has been rejected on a session with a history
C7_Witness ==
    /\ status = 400
    /\ body_question = <<" ", " ">>
    /\ Len(session_history) = 10

PastSelection ==
    /\ status # 400
    /\ pc \notin {"idle", "step0", "resolution"}
    /\ failed \notin {"classify_intent", "get_embedding"}

\* C8 as stated: a request that carries selected_user_id never calls
\* resolve_author, gets the supplied id as authorUserId and no candidate list.
C8_SelectionSkipsResolver ==
    (selected_user_id # NoneV /\ status # 400) =>
        /\ "resolve_author" \notin Calls
        /\ result.candidates = NoneV
        /\ PastSelection => intent_obj.authorUserId = selected_user_id

\* C8 (amended): a request that carries a non-empty selected_user_id never
\* calls resolve_author and gets no candidate list, and once step 0 has
\* succeeded its intent's authorUserId is the supplied id.
C8_NonEmptySelectionSkipsResolver ==
    (Truthy(selected_user_id) /\ status # 400) =>
        /\ "resolve_author" \notin Calls
        /\ Calls \cap {"exact_lookup", "fuzzy_lookup"} = {}
        /\ result.candidates = NoneV
        /\ result.resolution = NoResolution
        /\ PastSelection =>
              /\ intent_obj.authorUserId = selected_user_id
              /\ result.intent.authorUserId = selected_user_id
              /\ "person_lookup" \in Calls

\* a selection has been answered for a question that names an author
C8_Witness ==
    /\ Answered
    /\ Truthy(selected_user_id)
    /\ Truthy(intent_raw.author)
    /\ branch = "template"
    /\ intent_obj.authorUserId = selected_user_id

\* C9 as stated: when the exact lookup finds an in-house researcher there are
\* no candidates and the returned intent's authorUserId is populated with a
\* non-null identifier of that researcher.
C9_ExactPopulatesIdentifier ==
    result.resolution.resolution_path = "EXACT" =>
        /\ result.candidates = NoneV
        /\ updated_intent.authorUserId # NoneV
        /\ updated_intent.authorUserId \in {res_nodes[1].userId, res_nodes[1].ccid}

\* C10: a request that returns candidates ends there: no query is generated
\* or executed, no semantic search and no synthesis runs, and the response
\* has empty cypher, dbRows and semanticHits and no error.
C10_CandidatesAreTerminal ==
    result.candidates # NoneV =>
        /\ pc \in {"returned", "responded"}
        /\ branch = "none"
        /\ trace[Len(trace)] = "fuzzy_lookup"
        /\ Calls \subseteq {"classify_intent", "get_embedding", "resolve_author",
                            "exact_lookup", "fuzzy_lookup"}
        /\ cypher_task = "none" /\ semantic_task = "none"
        /\ result.cypher = <<>>
        /\ result.dbRows = <<>>
        /\ result.semanticHits = <<>>
        /\ result.error = NoneV
        /\ failed = "none"
        /\ result.answer = CandidatesAnswer(author_to_check.v)

\* a candidate list of two has been returned for a template kind
C10_Witness ==
    /\ Answered
    /\ result.candidates # NoneV
    /\ Len(result.candidates.v) = 2
    /\ is_template_intent(intent_obj)

\* the request has passed author resolution and reached the branching
Routed == pc = "route" \/ branch # "none"

\* C11: an OPEN_QUESTION intent whose authorUserId an exact resolution
\* populated reaches the branching as AUTHOR_PUBLICATIONS_RANGE, one whose id
\* a direct selection supplied as AUTHOR_MAIN_RESEARCH_AREAS; any other
\* classified kind is never rewritten.
C11_PromotionOfOpenQuestion ==
    /\ ("step0_setup" \in result.timings /\ intent_raw.intent # "OPEN_QUESTION") =>
          /\ intent_obj.intent = intent_raw.intent
          /\ result.intent.intent = intent_raw.intent
    /\ (Routed /\ intent_raw.intent = "OPEN_QUESTION") =>
          /\ (result.resolution.resolution_path = "EXACT"
                /\ updated_intent.authorUserId # NoneV) =>
                   /\ intent_obj.intent = "AUTHOR_PUBLICATIONS_RANGE"
                   /\ intent_obj.authorUserId = res_nodes[1].userId
          /\ "person_lookup" \in Calls =>
                   /\ intent_obj.intent = "AUTHOR_MAIN_RESEARCH_AREAS"
                   /\ intent_obj.authorUserId = selected_user_id
          /\ intent_obj.intent \in {"OPEN_QUESTION", "AUTHOR_PUBLICATIONS_RANGE",
                                    "AUTHOR_MAIN_RESEARCH_AREAS"}
          /\ intent_obj.intent = "OPEN_QUESTION" =>
                \/ ~Truthy(intent_obj.authorUserId)
                \/ intent_obj.authorUserId = intent_raw.authorUserId
          /\ result.intent = intent_obj

\* an exact resolution has turned an open question into a publications query
C11_Witness ==
    /\ Answered
    /\ intent_raw.intent = "OPEN_QUESTION"
    /\ result.resolution.resolution_path = "EXACT"
    /\ intent_obj.intent = "AUTHOR_PUBLICATIONS_RANGE"
    /\ branch = "template"

(***************************************************************************)
(* Functions called on their own: has_required_slots (backend.py 574-590)  *)
(* and normalize_intent (backend.py 111-150) on one intent                 *)
(***************************************************************************)
\* intents of every kind (template kinds, OPEN_QUESTION, none) whose slots
\* are null, empty or filled, with a department that is a plain string, an
\* alias in some letter case and between blanks, or a list
CallIntents ==
    LET kinds == TEMPLATE_INTENTS \cup {"OPEN_QUESTION", KindNone}
        slots == {NoneV, Str(<<>>), Str(<<"u1">>)}
        departments ==
            {NoneV, Str(<<>>), Str(<<"E","C","E">>), Str(<<"e","n","g","g">>),
             Str(<<" ","E","n","g","g">>),
             Str(<<"F","a","c","u","l","t","y"," ","E","N","G","I","N","E","E","R","I","N","G"," ">>),
             Str(<<"E","n","g","g"," ","x">>),
             List(<<>>), List(<<"ECE">>), List(ENGINEERING_DEPARTMENTS)}
    IN {Intent(k, NoneV, s, NoneV, d, u) :
           k \in kinds, s \in slots, d \in departments, u \in slots}

\* the messages with the oldest ten turns of the history
Messages_oldest_turns(system_prompt, user_content, history) ==
    <<Turn("system", system_prompt)>>
        \o (IF Truthy(history)
            THEN FirstN(history.v, 10) ELSE <<>>)
        \o <<Turn("user", user_content)>>

\* the messages call_llm sends (backend.py 169-178): the system prompt, the
\* last ten turns of a non-empty history, the user content
Messages(system_prompt, user_content, history) ==
    <<Turn("system", system_prompt)>>
        \o (IF Truthy(history)
            THEN LastN(history.v, 10) ELSE <<>>)
        \o <<Turn("user", user_content)>>

\* the third argument of call_llm at each of its call sites (backend.py 199,
\* 234, 250, 283, 520, 536): only the two syntheses hand the history on
HistoryArgument(caller, history) ==
    IF caller \in {"synthesize_answer", "synthesize_final_author_answer"}
    THEN history
    ELSE NoneV

\* the histories a caller of answer_question can pass: none, an empty list,
\* two turns, twelve turns
ChatCalls ==
    LET turns == [i \in 1..12 |->
                    Turn(IF i % 2 = 1 THEN "user" ELSE "assistant", <<ToString(i)>>)]
        histories == {NoneV, List(<<>>), List(SubSeq(turns, 1, 2)), List(turns)}
        callers == {"classify_intent", "generate_cypher", "generate_author_cypher",
                    "recursive_semantic_answer", "synthesize_answer",
                    "synthesize_final_author_answer"}
    IN {[caller |-> c, conversation_history |-> h] : c \in callers, h \in histories}

MAX_ITEMS == 15
MAX_TEXT_LEN == 500

\* _sanitize_payload with the default limits, a dict being the sequence of
\* its items in insertion order: a list keeps its first
\* fifteen items, each sanitized; a dict keeps its keys, a string value
\* longer than 500 characters is cut and marked, a dict or list value is
\* sanitized; anything else comes back as it is
RECURSIVE _sanitize_payload(_)
_sanitize_payload(data) ==
    IF data.t = "list"
    THEN LET sliced == FirstN(data.v, MAX_ITEMS)
         IN List([i \in 1..Len(sliced) |-> _sanitize_payload(sliced[i])])
    ELSE IF data.t = "dict"
    THEN [t |-> "dict",
          v |-> [i \in 1..Len(data.v) |->
                   LET v == data.v[i].v
                   IN [k |-> data.v[i].k,
                       v |-> IF v.t = "str" /\ Len(v.v) > MAX_TEXT_LEN
                             THEN Str(Append(SubSeq(v.v, 1, MAX_TEXT_LEN), "...(truncated)"))
                             ELSE IF v.t \in {"dict", "list"}
                             THEN _sanitize_payload(v)
                             ELSE v]]]
    ELSE data

\* what the syntheses sanitize: db_rows, semantic_hits and author_rows, lists
\* of rows whose columns hold strings, lists and maps
SanitizeCalls ==
    LET text(n) == Str([i \in 1..n |-> "a"])
        many(x) == List([i \in 1..(MAX_ITEMS + 1) |-> x])
        Dict(items) == [t |-> "dict", v |-> items]
        Item(k, v) == [k |-> k, v |-> v]
        values == {NoneV, text(3), text(MAX_TEXT_LEN), text(MAX_TEXT_LEN + 1),
                   List(<<text(3)>>), List(<<text(MAX_TEXT_LEN + 1)>>),
                   many(text(1)), many(Dict(<<Item("title", text(MAX_TEXT_LEN + 1))>>)),
                   Dict(<<Item("abstract", text(MAX_TEXT_LEN + 1))>>),
                   Dict(<<Item("years", many(text(1)))>>)}
        rows == {Dict(<<Item("title", a), Item("value", b)>>) : a \in {text(3), text(MAX_TEXT_LEN + 1)},
                                                                 b \in values}
        lists == {List(<<>>)} \cup {List(<<r>>) : r \in rows} \cup {many(r) : r \in rows}
    IN {[field |-> f, data |-> d] : f \in {"db_rows", "semantic_hits", "author_data"},
                                    d \in lists}

InitCalls ==
    /\ arg \in CallIntents \cup ChatCalls \cup SanitizeCalls
    /\ ret = <<>>
    /\ inflight = <<>>
    /\ session_history = <<>>
    /\ turn_log = <<>>
    /\ Fresh

CallHasRequiredSlots ==
    /\ "intent" \in DOMAIN arg
    /\ ret = <<>>
    /\ ret' = <<[fn |-> "has_required_slots", v |-> has_required_slots(arg)]>>
    /\ UNCHANGED <<arg, inflight, http, pipeline>>

\* normalize_intent on the intent, then on what it returned; it works on a
\* shallow copy, dict(intent_obj), so the argument keeps its value
CallNormalizeIntent ==
    /\ "intent" \in DOMAIN arg
    /\ \/ ret = <<>>
       \/ Len(ret) = 1 /\ ret[1].fn = "normalize_intent"
    /\ ret' = Append(ret, [fn |-> "normalize_intent",
                           v |-> normalize_intent(IF ret = <<>> THEN arg ELSE ret[1].v)])
    /\ UNCHANGED <<arg, inflight, http, pipeline>>

\* one of the callers asks the LLM; the provider fails or answers with
\* some content
CallLLM(reply) ==
    /\ "caller" \in DOMAIN arg
    /\ ret = <<>>
    /\ ret' = <<[fn |-> "call_llm",
                 messages |-> Messages(<<arg.caller, "prompt">>, <<"content">>,
                                       HistoryArgument(arg.caller, arg.conversation_history)),
                 reply |-> reply,
                 v |-> call_llm(reply)]>>
    /\ UNCHANGED <<arg, inflight, http, pipeline>>

\* synthesize_answer and synthesize_final_author_answer sanitize a field of
\* the payload
CallSanitizePayload ==
    /\ "field" \in DOMAIN arg
    /\ ret = <<>>
    /\ ret' = <<[fn |-> "_sanitize_payload", v |-> _sanitize_payload(arg.data)]>>
    /\ UNCHANGED <<arg, inflight, http, pipeline>>

NextCalls ==
    \/ CallHasRequiredSlots
    \/ CallNormalizeIntent
    \/ \E reply \in AnswerReplies \cup {LLMText(<<" ">>)} : CallLLM(reply)
    \/ CallSanitizePayload

SpecCalls == InitCalls /\ [][NextCalls]_vars

SlotsChecked == ret # <<>> /\ ret[1].fn = "has_required_slots"

\* C12 as stated: has_required_slots is true exactly for DEPARTMENT_TOPIC_TRENDS
\* with a non-null department, AUTHOR_PAIR_SHARED_PUBLICATIONS with
\* authorUserId and second_author, any other template kind with authorUserId.
C12_SlotTableAsStated ==
    LET expected ==
            \/ arg.intent = "DEPARTMENT_TOPIC_TRENDS" /\ arg.department # NoneV
            \/ /\ arg.intent = "AUTHOR_PAIR_SHARED_PUBLICATIONS"
               /\ arg.authorUserId # NoneV
               /\ arg.second_author # NoneV
            \/ /\ arg.intent \in TEMPLATE_INTENTS \ {"DEPARTMENT_TOPIC_TRENDS",
                                                     "AUTHOR_PAIR_SHARED_PUBLICATIONS"}
               /\ arg.authorUserId # NoneV
    IN SlotsChecked => ret[1].v = expected

NonEmpty(x) == x # NoneV /\ x.v # <<>>

\* C12 (amended): for a template kind has_required_slots is true exactly
\* when the slots the kind needs are non-empty (department for
\* DEPARTMENT_TOPIC_TRENDS; authorUserId and second_author for
\* AUTHOR_PAIR_SHARED_PUBLICATIONS; authorUserId for the others); for a
\* kind that is no template kind it is true whatever the slots hold.
C12_SlotTable ==
    LET expected ==
            \/ arg.intent \notin TEMPLATE_INTENTS
            \/ arg.intent = "DEPARTMENT_TOPIC_TRENDS" /\ NonEmpty(arg.department)
            \/ /\ arg.intent = "AUTHOR_PAIR_SHARED_PUBLICATIONS"
               /\ NonEmpty(arg.authorUserId)
               /\ NonEmpty(arg.second_author)
            \/ /\ arg.intent \in TEMPLATE_INTENTS \ {"DEPARTMENT_TOPIC_TRENDS",
                                                     "AUTHOR_PAIR_SHARED_PUBLICATIONS"}
               /\ NonEmpty(arg.authorUserId)
    IN SlotsChecked => ret[1].v = expected

\* the check has refused a department trend whose department is the empty string
C12_Witness ==
    /\ SlotsChecked
    /\ ret[1].v = FALSE
    /\ arg.intent = "DEPARTMENT_TOPIC_TRENDS"
    /\ arg.department = Str(<<>>)
    /\ arg.authorUserId = Str(<<"u1">>)

Normalized == ret # <<>> /\ ret[1].fn = "normalize_intent"

\* C13: normalize_intent is idempotent: applied to its own result it returns
\* that result again, whatever the department is.
C13_NormalizeIdempotent ==
    (Normalized /\ Len(ret) = 2) => ret[2].v = ret[1].v

\* an alias between blanks has been expanded and normalized again
C13_Witness ==
    /\ Normalized
    /\ Len(ret) = 2
    /\ arg.department = Str(<<" ","E","n","g","g">>)
    /\ ret[2].v.department.t = "list"
    /\ Len(ret[2].v.department.v) = 5

\* C14 as stated: the department is replaced by the five departments exactly
\* when it is a string whose lowercase form is one of the six aliases; all
\* else passes through and the other fields are identical.
C14_AliasExpansionAsStated ==
    Normalized =>
        /\ ret[1].v.department =
              IF arg.department.t = "str" /\ Lower(arg.department.v) \in ENGINEERING_ALIASES
              THEN List(ENGINEERING_DEPARTMENTS)
              ELSE arg.department
        /\ \A k \in DOMAIN arg \ {"department"} : ret[1].v[k] = arg[k]

\* C14 (amended): the department is replaced by the five departments exactly
\* when it is a string that, stripped of surrounding blanks and lowercased,
\* is one of the six aliases; every other string, every list and null pass
\* through unchanged, the other fields are identical and the argument keeps
\* its value.
C14_AliasExpansion ==
    /\ [](Normalized =>
            /\ ret[1].v.department =
                  IF arg.department.t = "str"
                     /\ Lower(Strip(arg.department.v)) \in ENGINEERING_ALIASES
                  THEN [t |-> "list", v |-> ENGINEERING_DEPARTMENTS]
                  ELSE arg.department
            /\ Len(ENGINEERING_DEPARTMENTS) = 5
            /\ Cardinality(ENGINEERING_ALIASES) = 6
            /\ DOMAIN ret[1].v = DOMAIN arg
            /\ \A k \in DOMAIN arg \ {"department"} : ret[1].v[k] = arg[k])
    /\ [][arg' = arg]_vars

\* an alias in capitals followed by a blank has been expanded
C14_Witness ==
    /\ Normalized
    /\ Len(ret) = 1
    /\ arg.department.t = "str"
    /\ Len(arg.department.v) = 20
    /\ ret[1].v.department.t = "list"
    /\ arg.authorUserId = Str(<<"u1">>)

\* C15 as stated: classify_intent never raises: whatever the chat completion
\* answers, intent_task ends with an intent that has all eight slots.
C15_ClassifyNeverRaises ==
    /\ intent_task # "failed"
    /\ intent_task = "done" => IntentKeys \subseteq DOMAIN intent_raw

\* C16: a failing vector query of semantic_search_publications or of
\* _semantic_search_with_embedding never reaches the caller. The search
\* returns the empty list: after a failed topic search the raw hits are
\* empty and the task is done, after a failed cohort search the semantic
\* hits of the request and of the response are empty; the step that absorbs
\* the failure neither records a failure nor sets error, and unless another
\* call fails the response has no error.
C16_VectorFailureAbsorbed ==
    /\ [](/\ failed \notin {"topic_search", "cohort_search"}
          /\ "topic_search" \in swallowed =>
                /\ raw_hits = <<>>
                /\ semantic_task = "done"
          /\ "cohort_search" \in swallowed =>
                /\ semantic_hits = <<>>
                /\ result.semanticHits = <<>>
          /\ (swallowed \cap {"topic_search", "cohort_search"} # {} /\ failed = "none") =>
                result.error = NoneV)
    /\ [][swallowed' # swallowed =>
            /\ failed' = failed
            /\ result'.error = result.error
            /\ pc' # "responded"]_vars

C16_Witness ==
    /\ Answered
    /\ {"topic_search", "cohort_search"} \subseteq swallowed
    /\ result.semanticHits = <<>>
    /\ result.error = NoneV
    /\ status = 200

\* the hits of a response come from the cohort-fallback search
CohortHitsInResponse ==
    /\ "cohort_search" \in Calls
    /\ pc \notin {"fallback", "open_search"}

\* C17: every hit returned by the cohort-fallback search, in the semantic
\* branch and in the fallback of the template branch, has a score of at
\* least MIN_RELEVANCE_SCORE: no weaker hit is in semanticHits of such a
\* response or in the hits handed to author discovery and synthesis.
C17_CohortHitsAboveThreshold ==
    CohortHitsInResponse =>
        /\ \A i \in 1..Len(result.semanticHits) :
              result.semanticHits[i].score >= MIN_RELEVANCE_SCORE
        /\ \A i \in 1..Len(semantic_hits) :
              semantic_hits[i].score >= MIN_RELEVANCE_SCORE

\* the structured path found no row and the fallback search no hit, or the
\* semantic branch found no hit
EmptyResult ==
    \/ /\ "semantic_fallback" \in result.timings
       /\ result.dbRows = <<>>
       /\ result.semanticHits = <<>>
    \/ /\ branch = "semantic"
       /\ "cohort_search" \in Calls
       /\ pc # "open_search"
       /\ result.semanticHits = <<>>

\* C18: a request that ends with an empty result is answered with status
\* 200, the fixed guidance message and no error, and no answer is
\* synthesized by the LLM.
C18_EmptyResultGuidance ==
    (Answered /\ EmptyResult) =>
        /\ status = 200
        /\ result.answer = GUIDANCE_ANSWER
        /\ result.error = NoneV
        /\ Calls \cap {"synthesize_answer", "synthesize_final_author_answer"} = {}

\* a routed request without a selection whose classified intent has no author
RoutedWithoutAuthor ==
    /\ branch # "none"
    /\ ~Truthy(selected_user_id)
    /\ ~Truthy(intent_raw.author)

LaterStage ==
    \/ "step0_setup" \in result.timings
    \/ pc \notin {"idle", "step0", "returned", "responded"}
    \/ intent_obj # EmptyIntent
    \/ Len(trace) > 2
    \/ branch # "none"

\* C20: the classification task and the embedding task are created
\* together and both have issued their request before the result of either
\* is taken; normalization, resolution and routing begin only when both
\* tasks have completed.
C20_Step0BothAwaited ==
    /\ (intent_task = "none") <=> (embedding_task = "none")
    /\ ({intent_task, embedding_task} \cap {"done", "failed"} # {}) =>
          "created" \notin {intent_task, embedding_task}
    /\ Len(trace) >= 2 => trace[1] = "classify_intent" /\ trace[2] = "get_embedding"
    /\ LaterStage => intent_task = "done" /\ embedding_task = "done"

C20_Witness ==
    /\ pc = "resolution"
    /\ intent_task = "done"
    /\ embedding_task = "done"
    /\ trace = <<"classify_intent", "get_embedding">>
    /\ "step0_setup" \in result.timings
    /\ result.intent = intent_obj

\* C21: on the template path a kind of TOPIC_INTENTS has its query
\* generation and its topic search both started before the result of either
\* is taken, and run_cypher is issued on the generated query only when both
\* have completed, in whichever order they complete; any other kind has no
\* topic search at all.
C21_TemplateBothAwaited ==
    branch = "template" =>
        LET topical == intent_obj.intent \in TOPIC_INTENTS
            tasks == {cypher_task, semantic_task}
        IN
        /\ topical <=> semantic_task # "none"
        /\ ~topical =>
              /\ Calls \cap {"get_embedding_topic", "topic_search"} = {}
              /\ raw_hits = <<>>
        /\ (topical /\ tasks \cap {"done", "failed"} # {}) => "created" \notin tasks
        /\ "run_cypher" \in Calls =>
              /\ cypher_task = "done"
              /\ topical => semantic_task = "done"
              /\ result.cypher = cypher

\* a topic kind whose search returned hits: the query is executed after
\* the generation and the search have both completed
C21_Witness ==
    /\ pc = "db_query"
    /\ intent_obj.intent \in TOPIC_INTENTS
    /\ trace[Len(trace) - 1] = "topic_search"
    /\ trace[Len(trace)] = "run_cypher"
    /\ raw_hits # <<>>
    /\ cypher_task = "done"
    /\ semantic_task = "done"

\* a template request whose synthesis answered
TemplateSynthesized ==
    /\ Returned
    /\ branch = "template"
    /\ failed = "none"

\* the re-ask condition of the template branch
RowsEmptyWithHits == result.dbRows = <<>> /\ result.semanticHits # <<>>

\* C22 as stated: with no rows and some hits the re-ask follows the first
\* synthesis and its output is the answer of the response; otherwise no
\* re-ask is issued.
C22_ReaskReplacesAnswer ==
    TemplateSynthesized =>
        IF RowsEmptyWithHits
        THEN /\ "recursive_semantic_answer" \in Calls
             /\ result.answer = <<"second answer">>
        ELSE "recursive_semantic_answer" \notin Calls

\* C22 (amended): the re-ask is issued exactly when the query returned no
\* rows and the semantic hits are non-empty, right after the first
\* synthesis and with its answer at hand; its output is the answer of the
\* response when it succeeds, and when it fails the first answer is kept
\* and no error is set.
C22_ReaskOrFirstAnswer ==
    /\ pc = "reask" =>
          /\ answer_text = <<"first answer">>
          /\ result.dbRows = <<>> /\ result.semanticHits = semantic_hits
          /\ semantic_hits # <<>>
          /\ SubSeq(trace, Len(trace) - 1, Len(trace))
                = <<"synthesize_answer", "recursive_semantic_answer">>
    /\ TemplateSynthesized =>
          /\ "recursive_semantic_answer" \in Calls <=> RowsEmptyWithHits
          /\ result.error = NoneV
          /\ result.answer = IF RowsEmptyWithHits /\ "recursive_semantic_answer" \notin swallowed
                             THEN <<"second answer">>
                             ELSE <<"first answer">>

C22_Witness ==
    /\ Answered
    /\ TemplateSynthesized
    /\ RowsEmptyWithHits
    /\ "semantic_fallback" \in result.timings
    /\ swallowed = {}
    /\ result.answer = <<"second answer">>

\* the calls of the semantic branch, from the cohort search on
SemanticSteps ==
    LET k == CHOOSE i \in 1..Len(trace) : trace[i] = "cohort_search"
    IN SubSeq(trace, k, Len(trace))

DiscoverySteps ==
    <<"cohort_search", "generate_author_cypher", "run_cypher", "synthesize_final_author_answer">>

\* C23: on the semantic branch the cohort search comes first; with no hit
\* the guidance answer is returned and nothing else is called; with hits the
\* author-discovery query is generated, then executed with the titles of
\* the hits as its parameter, then the final answer is synthesized.
C23_SemanticOrder ==
    (branch = "semantic" /\ pc # "open_search") =>
        LET hits == result.semanticHits
            steps == SemanticSteps
        IN
        IF hits = <<>>
        THEN /\ steps = <<"cohort_search">>
             /\ result.answer = GUIDANCE_ANSWER
        ELSE /\ Len(steps) >= 2
             /\ steps = SubSeq(DiscoverySteps, 1, Len(steps))
             /\ "run_cypher" \in Range(steps) =>
                   /\ Len(titles) <= Len(hits)
                   /\ \A i \in 1..Len(titles) :
                         \E j \in 1..Len(hits) : hits[j].title = titles[i]

\* the generated query of the template branch has been executed
TemplateRowsKnown == branch = "template" /\ "db_query" \in result.timings

\* C24 as stated: on the template path a query without rows is always
\* followed by the cohort search, before the synthesis.
C24_NoRowsRunsFallback ==
    (TemplateRowsKnown /\ result.dbRows = <<>>) => "cohort_search" \in Calls

\* C24 (amended): on the template path the cohort search is run exactly
\* when the executed query yielded no rows and no topic hit reached
\* MIN_RELEVANCE_SCORE; it is issued right after the query and before the
\* synthesis, and its hits become the semantic hits of the request.
C24_FallbackWhenNothingFound ==
    TemplateRowsKnown =>
        LET relevant == {i \in 1..Len(raw_hits) : raw_hits[i].score >= MIN_RELEVANCE_SCORE}
            k == CHOOSE i \in 1..Len(trace) : trace[i] = "run_cypher"
        IN
        /\ "cohort_search" \in Calls <=> (result.dbRows = <<>> /\ relevant = {})
        /\ "cohort_search" \in Calls =>
              /\ trace[k + 1] = "cohort_search"
              /\ pc # "fallback" =>
                    /\ "semantic_fallback" \in result.timings
                    /\ trace[k + 2] = "synthesize_answer"
                    /\ result.semanticHits = semantic_hits
        /\ "cohort_search" \notin Calls =>
              /\ trace[k + 1] = "synthesize_answer"
              /\ "semantic_fallback" \notin result.timings

C24_Witness ==
    /\ Answered
    /\ TemplateRowsKnown
    /\ result.dbRows = <<>>
    /\ raw_hits = <<Hit(NoneV, 60)>>
    /\ "cohort_search" \in Calls
    /\ result.semanticHits # <<>>
    /\ failed = "none"

\* the exact lookup found no researcher and the fuzzy lookup no row
NoMatchAtAll ==
    /\ "fuzzy_lookup" \in Calls
    /\ "author_resolution" \in result.timings
    /\ res_nodes = <<>>

\* C25: when neither lookup finds a researcher, the resolution path recorded
\* in telemetry is NONE, there is no candidate list and the intent is the
\* one the resolver was given.
C25_NoMatchIsNone ==
    NoMatchAtAll =>
        /\ result.resolution.resolution_path = "NONE"
        /\ result.candidates = NoneV
        /\ updated_intent.author = author_to_check
        /\ updated_intent.authorUserId = intent_raw.authorUserId

\* C26: a name that matches several in-house researchers exactly ends the
\* request with a candidate list; it is never resolved to one of them
\* without asking.
C26_AmbiguousExactAsksUser ==
    (result.resolution.resolution_path = "EXACT" /\ exact_count > 1) =>
        /\ result.candidates # NoneV
        /\ pc \in {"returned", "responded"}
        /\ branch = "none"

\* C27: answer_question only reads the history it is given. No step between
\* its call and its return changes the list, so on every path (template,
\* semantic, candidates, error) the caller finds the turns it passed, in the
\* same order, which are the turns read from the session.
C27_HistoryReadOnly ==
    /\ [](pc \notin {"idle", "responded"} => conversation_history = session_history)
    /\ [][pc # "idle" => conversation_history' = conversation_history]_vars

\* a template request that passed a non-empty history to the synthesis
C27_Witness ==
    /\ pc = "returned"
    /\ branch = "template"
    /\ "synthesize_answer" \in Calls
    /\ failed = "none"
    /\ Len(conversation_history) = HISTORY_WINDOW
    /\ conversation_history = session_history

(***************************************************************************)
(* Progress.  The event loop runs every step of the program that is ready; *)
(* nothing in the code bounds the time an external service takes to        *)
(* answer (no timeout on the chat, embedding or graph calls, no deadline   *)
(* around answer_question), so the steps that receive a reply are not      *)
(* fair.                                                                   *)
(***************************************************************************)
SpecLive ==
    /\ Init
    /\ [][Next]_vars
    /\ WF_vars(\/ StartIntentTask \/ StartEmbeddingTask
               \/ GatherStep0 \/ GatherStep0Raise
               \/ SkipResolution \/ ResolveAuthorCall \/ DirectSelection
               \/ Route
               \/ StartCypherTask \/ StartSemanticTask
               \/ GatherTemplate \/ GatherTemplateRaise
               \/ ApiQueryRespond)

\* C28: every request that reached answer_question is eventually answered,
\* even when an external call never returns.
C28_EveryRequestAnswered == (pc = "step0") ~> (pc = "responded")

\* patch_dept_where_clause of new.py: every department clause of the query
\* is followed by the test of the abbr property
patch_dept_where_clause(q) ==
    LET clause == "WHERE toLower(d.department) = toLower(deptName)"
        abbr == "OR toLower(coalesce(d.abbr, '')) = toLower(deptName)"
        patched[i \in 0..Len(q)] ==
            IF i = 0 THEN <<>>
            ELSE patched[i - 1] \o (IF q[i] = clause THEN <<clause, abbr>> ELSE <<q[i]>>)
    IN patched[Len(q)]

\* C29: the query the template branch executes is the department-clause
\* broadening of the query the LLM generated, so a clause that equates
\* department to a name also tests abbr when it is executed.
C29_ExecutedQueryIsBroadened ==
    (branch = "template" /\ "run_cypher" \in Calls) =>
        \E generated \in CypherContents : result.cypher = patch_dept_where_clause(Strip(generated))

\* the number of times a call was issued
Issued(call) == Cardinality({i \in 1..Len(trace) : trace[i] = call})

\* C30 as stated: the embedding service is asked once per request and every
\* semantic search, topic search included, works without another request.
C30_OneEmbeddingRequest ==
    Issued("get_embedding") + Issued("get_embedding_topic") <= 1

\* C30 (amended): the question is embedded exactly once per request, in
\* step 0, and the cohort searches of both branches follow without any
\* further embedding request, on the embedding step 0 returned. The topic
\* search embeds the topic string with one request of its own, on the
\* template branch for a kind of TOPIC_INTENTS with a topic.
C30_QuestionEmbeddedOnce ==
    /\ Issued("get_embedding") = IF embedding_task \in {"none", "created"} THEN 0 ELSE 1
    /\ Issued("get_embedding") = 1 => trace[2] = "get_embedding"
    /\ Issued("get_embedding_topic") <= 1
    /\ "get_embedding_topic" \in Calls =>
          /\ branch = "template"
          /\ intent_obj.intent \in TOPIC_INTENTS
          /\ intent_obj.topic # NoneV /\ intent_obj.topic.v # <<>>
    /\ "topic_search" \in Calls => "get_embedding_topic" \in Calls
    /\ "cohort_search" \in Calls =>
          /\ embedding_task = "done"
          /\ question_embedding = Embedding
          /\ \A i \in 1..Len(trace) :
                trace[i] = "cohort_search" =>
                    \A j \in i..Len(trace) : trace[j] \notin {"get_embedding", "get_embedding_topic"}

\* a topic request whose topic search found nothing relevant and whose
\* fallback ran on the question embedding
C30_Witness ==
    /\ Answered
    /\ Issued("get_embedding") = 1
    /\ Issued("get_embedding_topic") = 1
    /\ {"topic_search", "cohort_search"} \subseteq Calls
    /\ result.semanticHits # <<>>
    /\ failed = "none"

Chatted == ret # <<>> /\ ret[1].fn = "call_llm"

\* C31 as stated: the messages are the system prompt, the last ten turns of
\* the history in their order, the user content; non-empty content is
\* returned as it is and no content raises; only the two syntheses pass the
\* history.
C31_ChatReturnsContent ==
    Chatted =>
        IF ret[1].reply.kind = "text" /\ ret[1].reply.content # <<>>
        THEN ret[1].v = Ok(ret[1].reply.content)
        ELSE ~ret[1].v.ok

\* C31 (amended): the messages are the system prompt, then the last ten
\* turns of the history in their order when the caller is one of the two
\* syntheses and the history is non-empty, then the user content; non-empty
\* content is returned with its surrounding whitespace removed, and a
\* provider failure or empty content raises.
C31_ChatMessagesAndResult ==
    Chatted =>
        LET m == ret[1].messages
            h == arg.conversation_history
            n == Len(m)
            passed == IF arg.caller \in {"synthesize_answer", "synthesize_final_author_answer"}
                         /\ h # NoneV
                      THEN h.v ELSE <<>>
            kept == IF Len(passed) > 10 THEN 10 ELSE Len(passed)
        IN
        /\ m[1] = Turn("system", <<arg.caller, "prompt">>)
        /\ m[n] = Turn("user", <<"content">>)
        /\ n = kept + 2
        /\ \A i \in 1..kept : m[1 + i] = passed[Len(passed) - kept + i]
        /\ IF ret[1].reply.kind = "text" /\ ret[1].reply.content # <<>>
           THEN /\ ret[1].v.ok
                /\ ret[1].v.v = SelectSeq(ret[1].reply.content, LAMBDA c : c # " ")
           ELSE ~ret[1].v.ok

\* a synthesis with twelve turns of history: ten are sent, the content comes
\* back stripped
C31_Witness ==
    /\ Chatted
    /\ arg.caller = "synthesize_answer"
    /\ arg.conversation_history # NoneV
    /\ Len(arg.conversation_history.v) = 12
    /\ Len(ret[1].messages) = 12
    /\ ret[1].messages[2].content = <<"3">>
    /\ ret[1].v = Ok(<<"first answer">>)

Sanitized == ret # <<>> /\ ret[1].fn = "_sanitize_payload"

\* every list of the value has at most fifteen items, at any depth
RECURSIVE ListsCapped(_)
ListsCapped(x) ==
    IF x.t = "list"
    THEN Len(x.v) <= MAX_ITEMS /\ \A i \in 1..Len(x.v) : ListsCapped(x.v[i])
    ELSE IF x.t = "dict" THEN \A i \in 1..Len(x.v) : ListsCapped(x.v[i].v)
    ELSE TRUE

\* every string of the value has at most 500 characters, or 500 characters
\* and the marker, at any depth
RECURSIVE StringsCut(_)
StringsCut(x) ==
    IF x.t = "str"
    THEN \/ Len(x.v) <= MAX_TEXT_LEN
         \/ Len(x.v) = MAX_TEXT_LEN + 1 /\ x.v[MAX_TEXT_LEN + 1] = "...(truncated)"
    ELSE IF x.t = "list" THEN \A i \in 1..Len(x.v) : StringsCut(x.v[i])
    ELSE IF x.t = "dict" THEN \A i \in 1..Len(x.v) : StringsCut(x.v[i].v)
    ELSE TRUE

\* C32: in what a synthesis sends for db_rows, semantic_hits or author_data,
\* every list has at most fifteen items and every string longer than 500
\* characters is cut to its first 500 characters and the marker, at any
\* nesting depth.
C32_PayloadBounded ==
    Sanitized => ListsCapped(ret[1].v) /\ StringsCut(ret[1].v)

\* the stored history holds the user turn of request r followed by its
\* assistant turn
PairStored(r) ==
    \E i \in 1..(Len(session_history) - 1) :
        /\ session_history[i] = Turn("user", <<"q", ToString(r)>>)
        /\ session_history[i + 1] = Turn("assistant", inflight[r].answer)

\* C33: when two requests of a session both read the stored history before
\* either writes it back, the history stored after both have completed holds
\* the user and assistant turns of both.
C33_NoPairLost ==
    (\A r \in {1, 2} : inflight[r].at = "done" /\ inflight[r].seen = 0)
        => PairStored(1) /\ PairStored(2)

\* C34: when the classifier found no author and the request carries no
\* selection, a name extraction is asked of the LLM before the request is
\* routed.
C34_ExtractionBeforeRouting ==
    (Routed /\ ~Truthy(selected_user_id) /\ ~Truthy(author_to_check))
        => Issued("extract_name") > 0

\* C37: when the embedding of the question fails, the request ends with the
\* error response and nothing beyond the two calls of step 0 is issued: no
\* query is generated or executed, template intent or not.
C37_EmbeddingFailureEndsRequest ==
    embedding_task = "failed" =>
        /\ pc \in {"step0", "returned", "responded"}
        /\ Calls \subseteq {"classify_intent", "get_embedding"}
        /\ result.cypher = <<>>
        /\ result.dbRows = <<>>
        /\ Returned => /\ result.error # NoneV
                       /\ result.answer = INTERNAL_ERROR_ANSWER

\* the classifier had answered with a template intent that has its slots
\* when the embedding failed; the error response went out
C37_Witness ==
    /\ Answered
    /\ embedding_task = "failed"
    /\ intent_task = "done"
    /\ intent_raw.intent = "DEPARTMENT_TOPIC_TRENDS"
    /\ Truthy(intent_raw.department)
    /\ failed = "get_embedding"
    /\ result.error # NoneV

\* C38: a failure of the second-pass re-ask is swallowed: the response
\* carries the answer of the first synthesis, error is not set and the
\* telemetry entries up to total are recorded.
C38_ReaskFailureSwallowed ==
    "recursive_semantic_answer" \in swallowed =>
        /\ Returned
        /\ failed = "none"
        /\ result.error = NoneV
        /\ result.answer = <<"first answer">>
        /\ {"step0_setup", "speculative_generation", "db_query", "synthesis", "total"}
              \subseteq result.timings

\* the re-ask was issued and failed; the first answer went out
C38_Witness ==
    /\ Answered
    /\ "recursive_semantic_answer" \in swallowed
    /\ trace[Len(trace)] = "recursive_semantic_answer"
    /\ result.answer = <<"first answer">>
    /\ "total" \in result.timings

\* C39: on the template path with a topic intent, the hits of the topic
\* search kept in semanticHits are those that carry a score of at least 0.7;
\* when none is left and the query returned no rows the cohort search is
\* run, and its hits are the semanticHits of the response.
C39_TopicHitsFiltered ==
    (branch = "template" /\ intent_obj.intent \in TOPIC_INTENTS
        /\ "db_query" \in result.timings) =>
        LET kept == SelectSeq(raw_hits, LAMBDA h : "score" \in DOMAIN h /\ h.score >= 70)
            fell_back == "semantic_fallback" \in result.timings
        IN
        /\ ~fell_back => result.semanticHits = kept
        /\ "cohort_search" \in Calls <=> (result.dbRows = <<>> /\ kept = <<>>)
        /\ fell_back => /\ "cohort_search" \in Calls
                        /\ result.semanticHits = semantic_hits
        /\ (fell_back /\ "cohort_search" \notin swallowed) => semantic_hits \in HitLists
        /\ (fell_back /\ "cohort_search" \in swallowed) => semantic_hits = <<>>

\* the topic search returned a hit of 0.8 and one of 0.6: the first alone is
\* in the response
C39_Witness ==
    /\ Answered
    /\ branch = "template"
    /\ intent_obj.intent \in TOPIC_INTENTS
    /\ Len(raw_hits) = 2
    /\ raw_hits[2].score = 60
    /\ Len(result.semanticHits) = 1
    /\ result.semanticHits[1].score = 80
    /\ result.error = NoneV

\* the researchers a question names in full, whatever its case
NamedIn(text) ==
    {r \in Researchers :
        \A w \in Range(Split(Lower(r.name))) : w \in Range(Split(Lower(text)))}

\* the message the last response answers
LastMessage == arg.history[Len(arg.history)].content

\* C35: when the history holds a pin and the question asked after it names
\* a different researcher, the pin is cleared: the request is not routed
\* with the pinned researcher.
C35_NewNameClearsPin ==
    (/\ ret # <<>>
     /\ Head(LastMessage) # "select_researcher:"
     /\ NamedIn(LastMessage) # {}
     /\ \E i \in 1..Len(arg.history) :
           /\ Head(arg.history[i].content) = "select_researcher:"
           /\ \A r \in NamedIn(LastMessage) :
                 r.normalized_name # Tail(arg.history[i].content))
      => ~(/\ ret[Len(ret)].response_type = "routed"
           /\ ret[Len(ret)].selected_norm # <<>>)

\* C36: after a researcher_disambiguation response, a selection of one of
\* the offered candidates by its normalized_name is not answered with
\* researcher_disambiguation again.
C36_SelectionEndsDisambiguation ==
    \A i \in 1..(Len(ret) - 1) :
        (/\ ret[i].response_type = "researcher_disambiguation"
         /\ \E c \in ret[i].candidates :
               arg.history[i + 1].content = <<"select_researcher:">> \o c.normalized_name)
          => ret[i + 1].response_type # "researcher_disambiguation"

====
